---- MODULE Spec2Model ----
(***************************************************************************)
(* Model of the explanation pipeline of app/ai_utils.py: correctness       *)
(* inference, reason clean-up and enrichment, and the per-row loop of      *)
(* generate_ai_explanations.  A text is a sequence of one-character        *)
(* strings; an HTML tag or an HTML entity is one element of the sequence.  *)
(***************************************************************************)
EXTENDS Integers, Sequences, FiniteSets, TLC

VARIABLES
    \* reason clean-up and enrichment (pure functions applied to drawn inputs)
    reason, option_text, correct_text, cleaned_reason, cleaned_again, enriched,
    enriched_again, final_reason, t_pc,
    \* correctness inference (_infer_correct_indices and build_prompt's
    \* partition, then _order_indices)
    irow, inferred_indices, prompt_data, correct_indices, incorrect_indices, i_pc,
    \* generate_ai_explanations: the frame as loaded and as updated, whether an
    \* API key is configured, the rows handled so far, the returned list, and
    \* for each row: whether build_prompt ran and what the prompt it built asks
    \* for, the calls of generate_content,
    \* the reply texts received, the html_parts written, the notice shown;
    \* target_indices are the row labels to process (a frame of n rows has the
    \* labels 1..n), retry_prompts counts the retry prompts sent for each row
    source_df, df, key_configured, counter, updated_rows, prompted, prompts, service_calls,
    replies_seen, html_parts, notices, g_pc, target_indices, retry_prompts,
    \* the classifier: a pair of category and sub-category labels, a respelling
    \* of it, and what the predicates give for each
    label_pair, respelled_pair, classification, respelled_classification, c_pc,
    \* the repair of a reply text: how the object is laid out, the pieces its
    \* string is made of, what _repair_json_text and _parse_response return
    json_layout, json_pieces, repaired_text, parsed_value, r_pc,
    \* stage_fetched on one sheet: the explanation column of the frame and of
    \* the worksheet, the mode, the row labels to process, the batch and the
    \* attempt in progress, what the last run returned, the rows saved so far,
    \* the seconds slept before each retry of the batch, and the runs so far:
    \* the batch, the labels passed, the labels returned; loaded_df keeps the
    \* explanation column as it was when the generation was started
    sheet_df, loaded_df, worksheet, mode, sheet_targets, batch_index, batch_attempt, batch_updates,
    sheet_updated_rows, waits, runs, s_pc

textVars == <<reason, option_text, correct_text, cleaned_reason, cleaned_again, enriched,
             enriched_again, final_reason, t_pc>>
inferVars == <<irow, inferred_indices, prompt_data, correct_indices, incorrect_indices, i_pc>>
loopVars == <<source_df, df, key_configured, counter, updated_rows, prompted, prompts, service_calls,
             replies_seen, html_parts, notices, g_pc, target_indices, retry_prompts>>
classifyVars == <<label_pair, respelled_pair, classification, respelled_classification, c_pc>>
repairVars == <<json_layout, json_pieces, repaired_text, parsed_value, r_pc>>
stageVars == <<sheet_df, loaded_df, worksheet, mode, sheet_targets, batch_index, batch_attempt, batch_updates,
              sheet_updated_rows, waits, runs, s_pc>>
vars == <<textVars, inferVars, loopVars, classifyVars, repairVars, stageVars>>

\* None and NaN are texts of one element that no cell text contains
None == <<"None">>
NaN == <<"NaN">>

(***************************************************************************)
(* Python string primitives.                                               *)
(***************************************************************************)
UpperLetters == <<"A","B","C","D","E","F","G","H","I","J","K","L","M","N","O","P","Q","R","S","T","U","V","W","X","Y","Z">>
LowerLetters == <<"a","b","c","d","e","f","g","h","i","j","k","l","m","n","o","p","q","r","s","t","u","v","w","x","y","z">>
Digits == {"0","1","2","3","4","5","6","7","8","9"}
Whitespace == {" ", "\n", "\r", "\t"}

Range(s) == {s[i] : i \in 1..Len(s)}

IsUpper(c) == \E i \in 1..26 : UpperLetters[i] = c
IsLowerLetter(c) == \E i \in 1..26 : LowerLetters[i] = c
IsAlpha(c) == IsUpper(c) \/ IsLowerLetter(c)

LowerChar(c) ==
    IF IsUpper(c) THEN LowerLetters[CHOOSE i \in 1..26 : UpperLetters[i] = c] ELSE c

UpperChar(c) ==
    IF IsLowerLetter(c) THEN UpperLetters[CHOOSE i \in 1..26 : LowerLetters[i] = c] ELSE c

Lower(s) == [i \in 1..Len(s) |-> LowerChar(s[i])]
Upper(s) == [i \in 1..Len(s) |-> UpperChar(s[i])]

Drop(s, n) == SubSeq(s, n + 1, Len(s))
Take(s, n) == SubSeq(s, 1, n)

\* number of leading elements of s that belong to chars
LeadCount(s, chars) ==
    IF \A i \in 1..Len(s) : s[i] \in chars THEN Len(s)
    ELSE (CHOOSE i \in 1..Len(s) : s[i] \notin chars /\ \A j \in 1..(i - 1) : s[j] \in chars) - 1

\* number of trailing elements of s that belong to chars
TrailCount(s, chars) ==
    IF \A i \in 1..Len(s) : s[i] \in chars THEN Len(s)
    ELSE Len(s) - (CHOOSE i \in 1..Len(s) : s[i] \notin chars /\ \A j \in (i + 1)..Len(s) : s[j] \in chars)

LStripChars(s, chars) == Drop(s, LeadCount(s, chars))
RStripChars(s, chars) == Take(s, Len(s) - TrailCount(s, chars))
Strip(s) == RStripChars(LStripChars(s, Whitespace), Whitespace)

StartsWith(s, p) == Len(p) <= Len(s) /\ Take(s, Len(p)) = p
EndsWith(s, p) == Len(p) <= Len(s) /\ Drop(s, Len(s) - Len(p)) = p
Contains(s, p) == \E i \in 0..(Len(s) - Len(p)) : SubSeq(s, i + 1, i + Len(p)) = p

\* s.count(c)
Count(s, c) == Cardinality({i \in 1..Len(s) : s[i] = c})

\* len(s.split()): the number of maximal runs of non-whitespace
WordCount(s) ==
    Cardinality({i \in 1..Len(s) : s[i] \notin Whitespace /\ (i = 1 \/ s[i - 1] \in Whitespace)})

\* re.sub(r"\s+", " ", s): of each run of whitespace only a " " in place of its
\* first element is kept
KeepCollapsed(pair) == ~(pair[1] \in Whitespace /\ pair[2])

CollapseSpaces(s) ==
    LET marked == [i \in 1..Len(s) |-> <<s[i], i > 1 /\ s[i - 1] \in Whitespace>>]
        kept == SelectSeq(marked, KeepCollapsed)
    IN  [i \in 1..Len(kept) |-> IF kept[i][1] \in Whitespace THEN " " ELSE kept[i][1]]

(***************************************************************************)
(* _sanitize_text: decode entities, replace tags by a space, collapse      *)
(* whitespace, trim.                                                       *)
(***************************************************************************)
IsTag(c) == Len(c) >= 2 /\ c \in {"<b>", "</b>", "<br>", "<p>", "</p>", "<strong>", "</strong>", "<table>", "</table>", "<span>", "</span>"}

\* html.unescape on the entities the model draws
Unescape(s) == [i \in 1..Len(s) |-> IF s[i] = "&amp;" THEN "&" ELSE IF s[i] = "&nbsp;" THEN " " ELSE s[i]]

_sanitize_text(value) ==
    LET text == Unescape(value)
        untagged == [i \in 1..Len(text) |-> IF IsTag(text[i]) THEN " " ELSE text[i]]
        flat == [i \in 1..Len(untagged) |-> IF untagged[i] \in {"\n", "\r"} THEN " " ELSE untagged[i]]
    IN  Strip(CollapseSpaces(flat))

(***************************************************************************)
(* _REASON_PREFIXES.  A pattern is a sequence of items matched greedily    *)
(* from the start of the text, ignoring case: "ws*" and "ws+" are \s* and  *)
(* \s+, "lit" a literal word, "alt" one of several words, "code+" is       *)
(* [A-E0-9]+ and "punct*" is [:\-]*.  No item of these patterns can match  *)
(* what the next item must match, so greedy matching is exact.             *)
(***************************************************************************)
WsStar == [t |-> "star", cls |-> Whitespace]
WsPlus == [t |-> "plus", cls |-> Whitespace]
CodePlus == [t |-> "plus", cls |-> {"a","b","c","d","e","A","B","C","D","E"} \cup Digits]
PunctStar == [t |-> "star", cls |-> {":", "-"}]
Lit(w) == [t |-> "alt", words |-> {w}]
Alt(ws) == [t |-> "alt", words |-> ws]
LabelTail == <<WsStar, PunctStar, WsStar>>

_REASON_PREFIXES == <<
    <<WsStar, Lit(<<"j","a","w","a","b","a","n">>), WsPlus, Lit(<<"y","a","n","g">>), WsPlus, Lit(<<"k","u","r","a","n","g">>), WsPlus, Lit(<<"t","e","p","a","t">>)>> \o LabelTail,
    <<WsStar, Lit(<<"j","a","w","a","b","a","n">>), WsPlus, Lit(<<"k","u","r","a","n","g">>), WsPlus, Lit(<<"t","e","p","a","t">>)>> \o LabelTail,
    <<WsStar, Lit(<<"j","a","w","a","b","a","n">>), WsPlus, Lit(<<"s","a","l","a","h">>)>> \o LabelTail,
    <<WsStar, Lit(<<"o","p","s","i">>), WsPlus, Lit(<<"s","a","l","a","h">>), WsPlus, CodePlus>> \o LabelTail,
    <<WsStar, Lit(<<"-">>), WsStar, Alt({<<"o","p","s","i">>, <<"p","i","l","i","h","a","n">>}), WsPlus, CodePlus>> \o LabelTail,
    <<WsStar, Alt({<<"o","p","s","i">>, <<"p","i","l","i","h","a","n">>}), WsPlus, CodePlus>> \o LabelTail >>

\* pattern.match(text): the length of the match of items k.. of pattern at
\* offset pos of text, or -1
RECURSIVE MatchFrom(_, _, _, _)
MatchFrom(pattern, k, text, pos) ==
    IF k > Len(pattern) THEN pos
    ELSE LET item == pattern[k]
             rest == Drop(text, pos)
         IN  IF item.t = "alt"
             THEN IF \E w \in item.words : StartsWith(Lower(rest), w)
                  THEN MatchFrom(pattern, k + 1, text,
                                 pos + Len(CHOOSE w \in item.words : StartsWith(Lower(rest), w)))
                  ELSE -1
             ELSE LET n == LeadCount(rest, item.cls)
                  IN  IF item.t = "plus" /\ n = 0 THEN -1
                      ELSE MatchFrom(pattern, k + 1, text, pos + n)

MatchEnd(pattern, text) == MatchFrom(pattern, 1, text, 0)

\* the for loop of _strip_reason_prefix: each pattern that matches is cut off
RECURSIVE StripPrefixesFrom(_, _)
StripPrefixesFrom(k, updated) ==
    IF k > Len(_REASON_PREFIXES) THEN updated
    ELSE LET end == MatchEnd(_REASON_PREFIXES[k], updated)
         IN  IF end >= 0 THEN StripPrefixesFrom(k + 1, Strip(Drop(updated, end)))
             ELSE StripPrefixesFrom(k + 1, updated)

StripPrefixPass_rotating(cleaned) ==
    IF cleaned = <<>> THEN cleaned ELSE Tail(cleaned) \o <<Head(cleaned)>>

StripPrefixPass(cleaned) == Strip(LStripChars(StripPrefixesFrom(1, cleaned), {"-", ":", " "}))

RECURSIVE StripPrefixLoop(_)
StripPrefixLoop(cleaned) ==
    LET updated == StripPrefixPass(cleaned)
    IN  IF updated = cleaned THEN cleaned ELSE StripPrefixLoop(updated)

_strip_reason_prefix(r) == StripPrefixLoop(Strip(r))

(***************************************************************************)
(* _strip_option_echo                                                      *)
(***************************************************************************)
RECURSIVE StripEchoLoop(_, _)
StripEchoLoop(cleaned, option_clean) ==
    IF ~StartsWith(Lower(cleaned), Lower(option_clean)) THEN cleaned
    ELSE LET trimmed == Strip(LStripChars(Drop(cleaned, Len(option_clean)), {" ", ",", ":", ".", "-"}))
         IN  IF trimmed = <<>> THEN <<>> ELSE StripEchoLoop(trimmed, option_clean)

_strip_option_echo(r, opt) ==
    IF Strip(opt) = <<>> THEN Strip(r) ELSE StripEchoLoop(Strip(r), Strip(opt))

\* the clean-up of one incorrect reason in generate_ai_explanations
CleanReason(r, opt) ==
    _strip_option_echo(_strip_reason_prefix(_sanitize_text(Strip(r))), opt)

(***************************************************************************)
(* _enrich_reason                                                          *)
(***************************************************************************)
SentenceEnd == {".", "!", "?"}
MinSentences == 2
MinWords == 25

Supplement(opt, correct) ==
    IF opt # <<>> /\ correct # <<>>
    THEN <<"p","e","n","j","e","l","a","s","a","n"," ","i","n","i"," ","m","a","s","i","h"," ","m","e","n","y","o","r","o","t","i"," ">> \o opt
         \o <<" ","t","a","n","p","a"," ","m","e","n","g","a","i","t","k","a","n","n","y","a"," ","d","e","n","g","a","n"," ","i","n","t","i"," ","s","o","a","l"," ","m","e","n","g","e","n","a","i"," ">> \o correct \o <<".">>
    ELSE IF correct # <<>>
    THEN <<"p","e","n","j","e","l","a","s","a","n"," ","i","n","i"," ","b","e","l","u","m"," ","m","e","n","u","n","j","u","k","k","a","n"," ","k","e","t","e","r","k","a","i","t","a","n"," ","d","e","n","g","a","n"," ","t","u","n","t","u","t","a","n"," ","s","o","a","l"," ","t","e","n","t","a","n","g"," ">> \o correct \o <<".">>
    ELSE <<"p","e","n","j","e","l","a","s","a","n"," ","p","e","r","l","u"," ","m","e","n","y","e","b","u","t","k","a","n"," ","s","e","c","a","r","a"," ","s","p","e","s","i","f","i","k"," ","m","e","n","g","a","p","a"," ","p","i","l","i","h","a","n"," ","i","n","i"," ","t","i","d","a","k"," ","m","e","m","e","n","u","h","i"," ","k","e","b","u","t","u","h","a","n"," ","s","o","a","l",".">>

NeedsSupplement_when_both(sentence_count, word_count) ==
    sentence_count < MinSentences /\ word_count < MinWords

NeedsSupplement(sentence_count, word_count) ==
    sentence_count < MinSentences \/ word_count < MinWords

\* the reason with a final period when it ends in none
WithPeriod(stripped) ==
    IF stripped # <<>> /\ stripped[Len(stripped)] \notin SentenceEnd THEN stripped \o <<".">> ELSE stripped

EnrichCleaned(opt, cleaned, correct) ==
    IF NeedsSupplement(Count(cleaned, ".") + Count(cleaned, "!") + Count(cleaned, "?"), WordCount(cleaned))
    THEN Strip((IF cleaned # <<>> /\ cleaned[Len(cleaned)] # " " THEN cleaned \o <<" ">> ELSE cleaned)
               \o Supplement(opt, correct))
    ELSE Strip(cleaned)

_enrich_reason(opt, r, correct) == EnrichCleaned(opt, WithPeriod(Strip(r)), correct)

(***************************************************************************)
(* Capitalisation of an incorrect reason.                                  *)
(***************************************************************************)
\* the characters of [A-Za-z']+
WordChars == Range(UpperLetters) \cup Range(LowerLetters) \cup {"'"}

\* re.match of the word pattern at the start of text: the word, <<>> if none
LeadingWord(text) == Take(text, LeadCount(text, WordChars))

\* re.findall of the word pattern: the maximal runs of word characters
WordTokens(text) ==
    {LeadingWord(Drop(text, i - 1)) :
        i \in {k \in 1..Len(text) : text[k] \in WordChars /\ (k = 1 \/ text[k - 1] \notin WordChars)}}

_extract_proper_tokens(text_a, text_b) ==
    {token \in WordTokens(text_a) \cup WordTokens(text_b) : IsUpper(token[1])}

Preserved(word, preserve_tokens) == word \in preserve_tokens \/ Lower(word) = <<"a","n","d","a">>

\* the branch for a text with a colon and something after it
LowerLeadingWord(rest, rest_word, preserve_tokens) ==
    IF rest_word # <<>> /\ ~Preserved(rest_word, preserve_tokens)
    THEN Lower(rest_word) \o Drop(rest, Len(rest_word)) ELSE rest

SpaceAfter(suffix) ==
    IF LeadCount(suffix, Whitespace) = 0 THEN <<" ">> ELSE Take(suffix, LeadCount(suffix, Whitespace))

WithoutAdalah(unspaced) ==
    IF StartsWith(Lower(unspaced), <<"a","d","a","l","a","h"," ">>) THEN Drop(unspaced, 7) ELSE unspaced

RejoinAfterColon(text, lead, space_after, rest, preserve_tokens) ==
    IF rest = <<>> THEN text
    ELSE lead \o <<":">> \o space_after \o LowerLeadingWord(rest, LeadingWord(rest), preserve_tokens)

LowerFirstWord_unchanged(text, leading_spaces, working, idx, word, preserve_tokens) == text

\* the branch for a text without: the first word is given a small initial
LowerFirstWord(text, leading_spaces, working, idx, word, preserve_tokens) ==
    IF word = <<>> \/ Preserved(word, preserve_tokens) THEN text
    ELSE Take(text, leading_spaces + idx) \o <<LowerChar(word[1])>> \o Drop(working, idx + 1)

FirstIndex(positions) == IF positions = {} THEN 0 ELSE CHOOSE i \in positions : \A j \in positions : i <= j

NormalizeWorking(text, leading_spaces, working, sep, alpha, preserve_tokens) ==
    IF sep > 0 /\ sep < Len(working)
    THEN RejoinAfterColon(text, Take(text, leading_spaces + sep - 1), SpaceAfter(Drop(working, sep)),
                          WithoutAdalah(LStripChars(Drop(working, sep), Whitespace)), preserve_tokens)
    ELSE IF alpha = 0 THEN text
    ELSE LowerFirstWord(text, leading_spaces, working, alpha - 1,
                        LeadingWord(Drop(working, alpha - 1)), preserve_tokens)

NormalizeStripped(text, leading_spaces, working, preserve_tokens) ==
    NormalizeWorking(text, leading_spaces, working,
                     FirstIndex({i \in 1..Len(working) : working[i] = ":"}),
                     FirstIndex({i \in 1..Len(working) : IsAlpha(working[i])}), preserve_tokens)

_normalize_reason_capital(text, preserve_tokens) ==
    IF text = <<>> THEN text
    ELSE NormalizeStripped(text, LeadCount(text, Whitespace), Drop(text, LeadCount(text, Whitespace)),
                           preserve_tokens)

\* the reason of an incorrect option after _normalize_reason_capital
FinalReason(enriched_reason, preserve_tokens) ==
    IF enriched_reason = <<>> THEN enriched_reason
    ELSE _normalize_reason_capital(enriched_reason, preserve_tokens)


(***************************************************************************)
(* Rows.  A cell that is absent or NaN is NaN; an empty cell is <<>>.      *)
(* Option slots are numbered 0..4 as in the code; slot 5 of the score      *)
(* columns is the "Pilihan" entry of OPTION_COLUMNS.                       *)
(***************************************************************************)
isna(v) == v \in {NaN, None}
notna(v) == ~isna(v)

\* a score cell: a number, or a cell float() rejects or pd.isna() accepts
Num(n) == [numeric |-> TRUE, value |-> n]
NoScore == [numeric |-> FALSE, value |-> 0]
IsNumber(cell) == cell.numeric

OPTION_TEXT_LABELS == <<"A", "B", "C", "D", "E">>
OPTION_COLUMNS == OPTION_TEXT_LABELS \o <<"Pilihan">>
NumOptions == Len(OPTION_TEXT_LABELS)
Slots == 0..(NumOptions - 1)
PilihanSlot == NumOptions

\* the mapping table of _infer_correct_indices: a letter, or "PILIHAN " and a
\* letter; <<>> stands for mapping.get() returning None
mapping(letter) ==
    LET code == IF StartsWith(letter, <<"P","I","L","I","H","A","N"," ">>) THEN Drop(letter, 8) ELSE letter
    IN  IF Len(code) = 1 /\ \E i \in 1..NumOptions : OPTION_TEXT_LABELS[i] = code[1]
        THEN <<(CHOOSE i \in 1..NumOptions : OPTION_TEXT_LABELS[i] = code[1]) - 1>>
        ELSE <<>>

DigitChars == <<"0","1","2","3","4","5","6","7","8","9">>

\* str(n) of a whole number: f"{idx + 1}", and f"{score}" with the trailing
\* zeros and the point removed
RECURSIVE DecimalText(_)
DecimalText(n) ==
    IF n < 10 THEN <<DigitChars[n + 1]>> ELSE DecimalText(n \div 10) \o <<DigitChars[(n % 10) + 1]>>

\* str(row.get("option_number", "")).strip().upper(); the text of a cell that
\* holds no text is no key of the mapping
OptionLetter(row) ==
    IF isna(row.option_number) THEN <<"N","A","N">> ELSE Upper(Strip(row.option_number))

\* build_prompt: option_map, the sanitized text of each slot
OptionMap(row) ==
    [i \in 1..NumOptions |->
        IF notna(row.texts[i]) /\ Strip(row.texts[i]) # <<>>
        THEN _sanitize_text(row.texts[i]) ELSE <<>>]

\* _extract_option_scores: the numeric scores of options A-E
_extract_option_scores(row) ==
    [i \in 1..NumOptions |-> IF IsNumber(row.scores[i]) THEN row.scores[i] ELSE NoScore]

\* list(dict.fromkeys(indices))
FirstOccurrence(pair) == ~pair[2]

Dedupe(s) ==
    LET marked == [i \in 1..Len(s) |-> <<s[i], \E j \in 1..(i - 1) : s[j] = s[i]>>]
        kept == SelectSeq(marked, FirstOccurrence)
    IN  [i \in 1..Len(kept) |-> kept[i][1]]

MinOf(S) == CHOOSE m \in S : \A x \in S : m <= x

MaxOf(S) == CHOOSE m \in S : \A x \in S : x <= m

\* strategy 1: the slots that share the maximal numeric score
TopSlots(row, max_score, mapped) ==
    LET IsTop(idx) == IsNumber(row.scores[idx + 1]) /\ row.scores[idx + 1].value = max_score
    IN  Dedupe(SelectSeq([i \in 1..NumOptions |-> i - 1], IsTop)
               \o (IF IsTop(PilihanSlot) THEN mapped ELSE <<>>))

ByScores(row) ==
    IF \A idx \in 0..PilihanSlot : ~IsNumber(row.scores[idx + 1]) THEN <<>>
    ELSE TopSlots(row,
                  MaxOf({row.scores[idx + 1].value : idx \in {k \in 0..PilihanSlot : IsNumber(row.scores[k + 1])}}),
                  mapping(OptionLetter(row)))

ByChosenLetter_skipped(row, option_texts) == <<>>

\* strategy 2: the chosen letter
MappedInRange(mapped, option_texts) ==
    IF mapped # <<>> /\ mapped[1] < Len(option_texts) THEN mapped ELSE <<>>

ByChosenLetter(row, option_texts) == MappedInRange(mapping(OptionLetter(row)), option_texts)

\* the option indices whose lowered, trimmed text satisfies Hit
MatchingOptions(option_texts, Hit(_)) ==
    LET Matches(idx) == Strip(Lower(option_texts[idx + 1])) # <<>> /\ Hit(Strip(Lower(option_texts[idx + 1])))
    IN  SelectSeq([i \in 1..Len(option_texts) |-> i - 1], Matches)

AnswerTrueMatches(cleaned_answer, option_texts) ==
    LET Hit(candidate) ==
            \/ cleaned_answer = candidate
            \/ EndsWith(cleaned_answer, candidate)
            \/ Contains(cleaned_answer, candidate)
    IN  MatchingOptions(option_texts, Hit)

\* strategy 3: the true-answer text matched against the option texts
ByAnswerTrue(row, option_texts) ==
    IF isna(row.answer_header_true) THEN <<>>
    ELSE AnswerTrueMatches(Lower(_sanitize_text(row.answer_header_true)), option_texts)

\* re.search(r"jawaban yang (?:benar|tepat)\s*[:\-]\s*(.+)", text): group 1 of
\* the leftmost match, or <<>> when nothing matches
SegmentAfterLabel(head) ==
    IF head # <<>> /\ head[1] \in {":", "-"} THEN LStripChars(Tail(head), Whitespace) ELSE <<>>

AnswerSegmentAt(text, pos) ==
    IF StartsWith(Drop(text, pos), <<"j","a","w","a","b","a","n"," ","y","a","n","g"," ","b","e","n","a","r">>) \/ StartsWith(Drop(text, pos), <<"j","a","w","a","b","a","n"," ","y","a","n","g"," ","t","e","p","a","t">>)
    THEN SegmentAfterLabel(LStripChars(Drop(text, pos + 18), Whitespace))
    ELSE <<>>

LeftmostSegment(text, hits) ==
    IF hits = {} THEN <<>>
    ELSE AnswerSegmentAt(text, CHOOSE pos \in hits : \A other \in hits : pos <= other)

AnswerSegment(text) ==
    LeftmostSegment(text, {pos \in 0..Len(text) : AnswerSegmentAt(text, pos) # <<>>})

\* row.get("explanation") or row.get("explanation_ai")
LegacyText(row) ==
    IF row.explanation \in {None, <<>>} THEN row.explanation_ai ELSE row.explanation

FirstOf(found) == IF found = <<>> THEN <<>> ELSE <<found[1]>>

LegacyMatches(answer_segment, option_texts) ==
    LET Hit(candidate) == StartsWith(answer_segment, candidate) \/ Contains(answer_segment, candidate)
    IN  FirstOf(MatchingOptions(option_texts, Hit))

LegacyAnswer(legacy_text, option_texts) ==
    IF isna(legacy_text) THEN <<>>
    ELSE LegacyMatches(AnswerSegment(Lower(_sanitize_text(legacy_text))), option_texts)

\* strategy 4: the answer named by a legacy explanation
ByLegacyExplanation(row, option_texts) == LegacyAnswer(LegacyText(row), option_texts)

\* a variant of FirstNonEmpty that consults the true-answer text before the
\* chosen letter
FirstNonEmpty_answer_first(by_scores, by_letter, by_answer, by_legacy) ==
    IF by_scores # <<>> THEN by_scores
    ELSE IF by_answer # <<>> THEN by_answer
    ELSE IF by_letter # <<>> THEN by_letter
    ELSE by_legacy

\* the result of the first strategy that yields anything
FirstNonEmpty(by_scores, by_letter, by_answer, by_legacy) ==
    IF by_scores # <<>> THEN by_scores
    ELSE IF by_letter # <<>> THEN by_letter
    ELSE IF by_answer # <<>> THEN by_answer
    ELSE by_legacy

_infer_correct_indices(row, option_texts) ==
    FirstNonEmpty(ByScores(row), ByChosenLetter(row, option_texts),
                  ByAnswerTrue(row, option_texts), ByLegacyExplanation(row, option_texts))

\* build_prompt: the correct indices, those with text first
TextfulFirst(inferred, option_map) ==
    LET HasText(idx) == idx < Len(option_map) /\ option_map[idx + 1] # <<>>
        NoText(idx) == ~HasText(idx)
    IN  IF \E k \in 1..Len(inferred) : HasText(inferred[k])
        THEN SelectSeq(inferred, HasText) \o SelectSeq(inferred, NoText)
        ELSE inferred

CorrectPartition(row, option_map) == TextfulFirst(_infer_correct_indices(row, option_map), option_map)

\* build_prompt: the incorrect indices, every other slot with text
IncorrectPartition(option_map, correct) ==
    LET IsIncorrect(idx) ==
            /\ \A k \in 1..Len(correct) : correct[k] # idx
            /\ option_map[idx + 1] # <<>>
    IN  SelectSeq([i \in 1..Len(option_map) |-> i - 1], IsIncorrect)

Partition(option_map, correct) ==
    [correct_indices |-> correct, incorrect_indices |-> IncorrectPartition(option_map, correct)]

PartitionRow(row, option_map) == Partition(option_map, CorrectPartition(row, option_map))

\* build_prompt: the part of its result the later stages read
BuildPromptData(row) == PartitionRow(row, OptionMap(row))

\* build_prompt: f"Opsi {idx + 1}: {cleaned}"
OptionLine(idx, cleaned) == <<"O","p","s","i"," ">> \o DecimalText(idx + 1) \o <<":"," ">> \o cleaned

\* a variant of OptionLine that numbers the lines as they are listed
OptionRows_renumbered(lines) == [k \in 1..Len(lines) |-> OptionLine(k - 1, lines[k][2])]

\* the lines as build_prompt numbers them: by the slot
OptionRows(lines) == [k \in 1..Len(lines) |-> OptionLine(lines[k][1], lines[k][2])]

\* build_prompt: option_instruction_rows, a line for each slot whose cell
\* holds text that is not blank, with the sanitized text
IsListed(slot) == notna(slot[3]) /\ Strip(slot[3]) # <<>>

OptionInstructionRows(row) ==
    OptionRows(SelectSeq([i \in 1..NumOptions |-> <<i - 1, OptionMap(row)[i], row.texts[i]>>], IsListed))

\* build_prompt: ', '.join(str(idx + 1) for idx in incorrect_indices)
RECURSIVE IncorrectRequest(_)
IncorrectRequest(indices) ==
    IF indices = <<>> THEN <<>>
    ELSE IF Len(indices) = 1 THEN DecimalText(indices[1] + 1)
    ELSE DecimalText(indices[1] + 1) \o <<",", " ">> \o IncorrectRequest(Tail(indices))

\* build_prompt: its result with the lines of the prompt that list the
\* options and name the incorrect ones
BuildPrompt(row) ==
    [correct_indices |-> BuildPromptData(row).correct_indices,
     incorrect_indices |-> BuildPromptData(row).incorrect_indices,
     option_instruction_rows |-> OptionInstructionRows(row),
     incorrect_request |-> IncorrectRequest(BuildPromptData(row).incorrect_indices)]

\* a variant of ScoreBefore that ignores the scores and keeps the option order
ScoreBefore_option_order(a, b, scores) == a < b

\* _score_sort_key: (-score, idx), a missing score counting as minus infinity
ScoreBefore(a, b, scores) ==
    LET sa == IF a < Len(scores) THEN scores[a + 1] ELSE NoScore
        sb == IF b < Len(scores) THEN scores[b + 1] ELSE NoScore
    IN  IF sa = sb THEN a < b
        ELSE IF ~IsNumber(sa) THEN FALSE
        ELSE IF ~IsNumber(sb) THEN TRUE
        ELSE sa.value > sb.value

FilterIndices_keep_textless(indices, option_map) ==
    LET InRange(idx) == idx < Len(option_map)
    IN  SelectSeq(Dedupe(indices), InRange)

\* _order_indices: the loop that drops repeated, out-of-range and textless indices
FilterIndices(indices, option_map) ==
    LET Usable(idx) == idx < Len(option_map) /\ option_map[idx + 1] # <<>>
    IN  SelectSeq(Dedupe(indices), Usable)

_order_indices(indices, scores, option_map) ==
    LET Before(a, b) == ScoreBefore(a, b, scores)
    IN  SortSeq(FilterIndices(indices, option_map), Before)

(***************************************************************************)
(* Specification SpecInfer: build_prompt's partition of the option slots   *)
(* of a drawn row, then _order_indices as generate_ai_explanations calls   *)
(* it.                                                                     *)
(***************************************************************************)
UsedSlots == 2

TextPool == {<<>>, <<"P","a","r","i","s">>, <<"L","y","o","n">>}
ScorePool == {NoScore, Num(2), Num(5)}
OptionNumberPool == {NaN, <<"A">>, <<" ","b"," ">>, <<"p","i","l","i","h","a","n"," ","c">>, <<"E">>}
AnswerTruePool == {NaN, <<"K","o","t","a"," ","P","a","r","i","s">>, <<"l","y","o","n">>}
LegacyPool == {
    [explanation |-> NaN, explanation_ai |-> <<>>],
    [explanation |-> <<"J","a","w","a","b","a","n"," ","y","a","n","g"," ","t","e","p","a","t",":"," ","L","y","o","n",".">>, explanation_ai |-> <<>>],
    [explanation |-> <<>>, explanation_ai |-> <<"<p>">> \o <<"J","a","w","a","b","a","n"," ","y","a","n","g"," ","b","e","n","a","r"," ","-"," ","p","a","r","i","s">> \o <<"</p>">>] }

\* the slots after the first UsedSlots are blank and carry no score
PadTexts(used) == [i \in 1..NumOptions |-> IF i <= Len(used) THEN used[i] ELSE <<>>]
PadScores(used, pilihan) ==
    [i \in 1..(NumOptions + 1) |->
        IF i = NumOptions + 1 THEN pilihan ELSE IF i <= Len(used) THEN used[i] ELSE NoScore]

ScoredRows ==
    {[texts |-> PadTexts(t), scores |-> PadScores(sc, p), option_number |-> n,
      answer_header_true |-> a, explanation |-> l.explanation, explanation_ai |-> l.explanation_ai] :
        t \in [1..UsedSlots -> TextPool], sc \in [1..UsedSlots -> ScorePool], p \in ScorePool,
        n \in OptionNumberPool, a \in AnswerTruePool, l \in LegacyPool}

\* rows without scores of which an option cell holds nothing but an entity
MarkupRows ==
    {[texts |-> PadTexts(t), scores |-> PadScores(<<>>, NoScore), option_number |-> n,
      answer_header_true |-> NaN, explanation |-> NaN, explanation_ai |-> <<>>] :
        t \in {t \in [1..UsedSlots -> {<<"&nbsp;">>, <<"P","a","r","i","s">>}] : \E i \in 1..UsedSlots : t[i] = <<"&nbsp;">>},
        n \in OptionNumberPool}

InferRows == ScoredRows \cup MarkupRows

NoRow ==
    [texts |-> PadTexts(<<>>), scores |-> PadScores(<<>>, NoScore), option_number |-> NaN,
     answer_header_true |-> NaN, explanation |-> NaN, explanation_ai |-> NaN]

NoPromptData ==
    [correct_indices |-> <<>>, incorrect_indices |-> <<>>, option_instruction_rows |-> <<>>,
     incorrect_request |-> <<>>]

InferIdle ==
    /\ irow = NoRow
    /\ inferred_indices = <<>>
    /\ prompt_data = NoPromptData
    /\ correct_indices = <<>>
    /\ incorrect_indices = <<>>
    /\ i_pc = "idle"

TextIdle ==
    /\ reason = <<>>
    /\ option_text = <<>>
    /\ correct_text = <<>>
    /\ cleaned_reason = None
    /\ cleaned_again = None
    /\ enriched = None
    /\ enriched_again = None
    /\ final_reason = None
    /\ t_pc = "idle"

LoopIdle ==
    /\ source_df = <<>>
    /\ df = <<>>
    /\ key_configured = FALSE
    /\ counter = 0
    /\ updated_rows = <<>>
    /\ prompted = {}
    /\ prompts = <<>>
    /\ service_calls = <<>>
    /\ replies_seen = <<>>
    /\ html_parts = <<>>
    /\ notices = <<>>
    /\ g_pc = "idle"
    /\ target_indices = <<>>
    /\ retry_prompts = <<>>

NoClassification ==
    [skip_reason |-> "None", is_tiu_numerik |-> FALSE, is_verbal_silogisme |-> FALSE,
     is_verbal_analogi |-> FALSE, is_verbal_analitis |-> FALSE, variant |-> "none"]

ClassifyIdle ==
    /\ label_pair = <<None, None>>
    /\ respelled_pair = <<None, None>>
    /\ classification = NoClassification
    /\ respelled_classification = NoClassification
    /\ c_pc = "idle"

NoValue == [kind |-> "none", key |-> <<>>, value |-> <<>>]

RepairIdle ==
    /\ json_layout = "none"
    /\ json_pieces = <<>>
    /\ repaired_text = <<>>
    /\ parsed_value = NoValue
    /\ r_pc = "idle"

StageIdle ==
    /\ sheet_df = <<>>
    /\ loaded_df = <<>>
    /\ worksheet = <<>>
    /\ mode = "none"
    /\ sheet_targets = <<>>
    /\ batch_index = 0
    /\ batch_attempt = 0
    /\ batch_updates = <<>>
    /\ sheet_updated_rows = <<>>
    /\ waits = <<>>
    /\ runs = <<>>
    /\ s_pc = "idle"

InitInfer ==
    /\ irow \in InferRows
    /\ inferred_indices = <<>>
    /\ prompt_data = NoPromptData
    /\ correct_indices = <<>>
    /\ incorrect_indices = <<>>
    /\ i_pc = "row"
    /\ TextIdle
    /\ LoopIdle
    /\ ClassifyIdle
    /\ RepairIdle
    /\ StageIdle

\* build_prompt: the inference and the partition into correct and incorrect
BuildPartition ==
    /\ i_pc = "row"
    /\ inferred_indices' = _infer_correct_indices(irow, OptionMap(irow))
    /\ prompt_data' = BuildPrompt(irow)
    /\ i_pc' = "built"
    /\ UNCHANGED <<irow, correct_indices, incorrect_indices>>
    /\ UNCHANGED <<textVars, loopVars, classifyVars, repairVars, stageVars>>

\* generate_ai_explanations: both lists go through _order_indices
OrderIndices ==
    /\ i_pc = "built"
    /\ LET option_map == OptionMap(irow)
           option_scores == _extract_option_scores(irow)
       IN  /\ correct_indices' = _order_indices(prompt_data.correct_indices, option_scores, option_map)
           /\ incorrect_indices' = _order_indices(prompt_data.incorrect_indices, option_scores, option_map)
    /\ i_pc' = "ordered"
    /\ UNCHANGED <<irow, inferred_indices, prompt_data>>
    /\ UNCHANGED <<textVars, loopVars, classifyVars, repairVars, stageVars>>

NextInfer == BuildPartition \/ OrderIndices

SpecInfer == InitInfer /\ [][NextInfer]_vars

HasOptionText(row, idx) == OptionMap(row)[idx + 1] # <<>>

\* C1: after build_prompt's partition and _order_indices, the correct and the
\* incorrect indices share no index and every index of either has option text.
C1_DisjointAndTextful ==
    i_pc = "ordered" =>
        /\ Range(correct_indices) \cap Range(incorrect_indices) = {}
        /\ LET option_map == OptionMap(irow)
           IN  \A idx \in Range(correct_indices) \cup Range(incorrect_indices) :
                   idx \in Slots /\ option_map[idx + 1] # <<>>

\* C1 witness: a row whose inferred correct slot has no text (its score is the
\* maximum), ordered, with a correct and an incorrect index left
C1_Witness ==
    /\ i_pc = "ordered"
    /\ \E idx \in Range(prompt_data.correct_indices) : ~HasOptionText(irow, idx)
    /\ correct_indices # <<>>
    /\ incorrect_indices # <<>>

\* idx is the only option slot A-E whose score is the strict maximum of the
\* option scores
UniqueMaxOption(row, idx) ==
    /\ IsNumber(row.scores[idx + 1])
    /\ \A other \in Slots \ {idx} :
           IsNumber(row.scores[other + 1]) => row.scores[other + 1].value < row.scores[idx + 1].value

\* the score of the "Pilihan" column is absent or below the score of slot idx
PilihanBelow(row, idx) ==
    IsNumber(row.scores[PilihanSlot + 1]) =>
        row.scores[PilihanSlot + 1].value < row.scores[idx + 1].value

OnlyCorrect(row, idx) ==
    /\ prompt_data.correct_indices = <<idx>>
    /\ Range(prompt_data.incorrect_indices) = {other \in Slots \ {idx} : HasOptionText(row, other)}
    /\ Len(prompt_data.incorrect_indices) = Cardinality(Range(prompt_data.incorrect_indices))

\* C2 as stated: whenever exactly one option has the strictly maximal score,
\* that option is the only correct index and every other option with text is
\* incorrect.
C2_UniqueMaxIsCorrect ==
    i_pc = "built" =>
        \A idx \in Slots : UniqueMaxOption(irow, idx) => OnlyCorrect(irow, idx)

\* C2 amended: the same, for rows whose "Pilihan" score column is absent or
\* below that maximum, so that the one maximal score slot is an option A-E.
C2_UniqueMaxIsCorrectAmended ==
    i_pc = "built" =>
        \A idx \in Slots :
            (UniqueMaxOption(irow, idx) /\ PilihanBelow(irow, idx)) => OnlyCorrect(irow, idx)

\* C2 witness: one option holds the strict maximum, another scored option
\* with text is below it, and the "Pilihan" column is scored below it as well
C2_Witness ==
    /\ i_pc = "built"
    /\ \E idx \in Slots :
           /\ UniqueMaxOption(irow, idx)
           /\ IsNumber(irow.scores[PilihanSlot + 1])
           /\ PilihanBelow(irow, idx)
           /\ \E other \in Slots \ {idx} : IsNumber(irow.scores[other + 1]) /\ HasOptionText(irow, other)
           /\ prompt_data.incorrect_indices # <<>>

\* the chosen-letter cell names slot idx: its letter, or "pilihan" and its
\* letter, in any case and with spaces around
DenotesSlot(cell, idx) ==
    /\ notna(cell)
    /\ Upper(Strip(cell)) \in {<<OPTION_TEXT_LABELS[idx + 1]>>, <<"P","I","L","I","H","A","N"," ">> \o <<OPTION_TEXT_LABELS[idx + 1]>>}

NoScoreAnywhere(row) == \A k \in 1..Len(row.scores) : ~IsNumber(row.scores[k])

\* C3: with no numeric score in any score column and a chosen letter naming a
\* slot with text, the inferred correct indices are exactly that slot.
C3_ChosenLetterDecides ==
    i_pc \in {"built", "ordered"} =>
        \A idx \in Slots :
            (NoScoreAnywhere(irow) /\ DenotesSlot(irow.option_number, idx) /\ HasOptionText(irow, idx))
                => /\ prompt_data.correct_indices = <<idx>>
                   /\ i_pc = "ordered" => correct_indices = <<idx>>

\* C3 witness: such a row, ordered, whose true-answer text names another option
C3_Witness ==
    /\ i_pc = "ordered"
    /\ NoScoreAnywhere(irow)
    /\ \E idx \in Slots :
           /\ DenotesSlot(irow.option_number, idx)
           /\ HasOptionText(irow, idx)
           /\ ByAnswerTrue(irow, OptionMap(irow)) \notin {<<>>, <<idx>>}

(***************************************************************************)
(* Specification SpecText: the reason clean-up and the enrichment applied  *)
(* to drawn reason texts, and applied again to their own output.           *)
(***************************************************************************)
MaxPieces == 3

ReasonPieces == {
    <<"P","a","r","i","s">>, <<" ">>, <<"o","p","s","i"," ","2",":">>, <<"-"," ","P","i","l","i","h","a","n"," ","B"," ","-">>, <<"J","a","w","a","b","a","n"," "," ","s","a","l","a","h",":">>,
    <<"k","o","t","a"," ","i","n","i"," ","b","u","k","a","n"," ","i","b","u"," ","k","o","t","a",".">>, <<"<b>">>, <<"&amp;">>,
    <<"k","o","t","a"," ","i","n","i"," ","d","i"," ","s","a","n","a","."," ","i","a"," ","a","d","a"," ","d","i"," ","t","e","p","i"," ","l","a","u","t"," ","d","a","n"," ","t","a","k"," ","d","i"," ","h","u","l","u","."," ","i","n","i"," ","t","a","k"," ","p","a","s"," ","d","i"," ","s","o","a","l"," ","i","t","u",","," ","j","a","d","i"," ","i","a"," ","t","a","k"," ","b","i","s","a"," ","d","i"," ","p","i","l","i","h"," ","l","a","g","i",".">> }

RECURSIVE Concats(_)
Concats(n) ==
    IF n = 0 THEN {<<>>}
    ELSE LET shorter == Concats(n - 1)
         IN  shorter \cup {a \o p : a \in shorter, p \in ReasonPieces}

OptionTextPool == {<<>>, <<"P","a","r","i","s">>, <<"L","y","o","n">>}
CorrectTextPool == {<<>>, <<"R","o","m","a">>}

InitText ==
    /\ reason \in Concats(MaxPieces)
    /\ option_text \in OptionTextPool
    /\ correct_text \in CorrectTextPool
    /\ cleaned_reason = None
    /\ cleaned_again = None
    /\ enriched = None
    /\ enriched_again = None
    /\ final_reason = None
    /\ t_pc = "input"
    /\ InferIdle
    /\ LoopIdle
    /\ ClassifyIdle
    /\ RepairIdle
    /\ StageIdle

\* generate_ai_explanations, the clean-up of one incorrect reason
Clean ==
    /\ t_pc = "input"
    /\ cleaned_reason' = CleanReason(reason, option_text)
    /\ t_pc' = "cleaned"
    /\ UNCHANGED <<reason, option_text, correct_text, cleaned_again, enriched, enriched_again, final_reason>>
    /\ UNCHANGED <<inferVars, loopVars, classifyVars, repairVars, stageVars>>

\* the clean-up run on its own output
CleanAgain ==
    /\ t_pc = "cleaned"
    /\ cleaned_again' = CleanReason(cleaned_reason, option_text)
    /\ t_pc' = "recleaned"
    /\ UNCHANGED <<reason, option_text, correct_text, cleaned_reason, enriched, enriched_again, final_reason>>
    /\ UNCHANGED <<inferVars, loopVars, classifyVars, repairVars, stageVars>>

\* generate_ai_explanations, the enrichment of the cleaned reason
Enrich ==
    /\ t_pc = "cleaned"
    /\ enriched' = _enrich_reason(option_text, cleaned_reason, correct_text)
    /\ t_pc' = "enriched"
    /\ UNCHANGED <<reason, option_text, correct_text, cleaned_reason, cleaned_again, enriched_again, final_reason>>
    /\ UNCHANGED <<inferVars, loopVars, classifyVars, repairVars, stageVars>>

\* the enrichment run on its own output
EnrichAgain ==
    /\ t_pc = "enriched"
    /\ enriched_again' = _enrich_reason(option_text, enriched, correct_text)
    /\ t_pc' = "reenriched"
    /\ UNCHANGED <<reason, option_text, correct_text, cleaned_reason, cleaned_again, enriched, final_reason>>
    /\ UNCHANGED <<inferVars, loopVars, classifyVars, repairVars, stageVars>>

\* generate_ai_explanations, the capitalisation of the enriched reason
NormalizeCapital ==
    /\ t_pc = "enriched"
    /\ final_reason' = FinalReason(enriched, _extract_proper_tokens(option_text, correct_text))
    /\ t_pc' = "normalized"
    /\ UNCHANGED <<reason, option_text, correct_text, cleaned_reason, cleaned_again, enriched, enriched_again>>
    /\ UNCHANGED <<inferVars, loopVars, classifyVars, repairVars, stageVars>>

NextText == Clean \/ CleanAgain \/ Enrich \/ EnrichAgain \/ NormalizeCapital

SpecText == InitText /\ [][NextText]_vars

\* C6: running the reason clean-up (sanitize, strip label prefixes, strip the
\* option echo) on its own output returns that output unchanged.
C6_CleanupIdempotent == t_pc = "recleaned" => cleaned_again = cleaned_reason

\* C7: applying _enrich_reason to its own output returns it unchanged; no
\* second supplementary sentence is appended.
C7_EnrichIdempotent == t_pc = "reenriched" => enriched_again = enriched

(***************************************************************************)
(* Category rules.                                                         *)
(***************************************************************************)
\* str(value) of a cell: the text itself, "nan" for NaN
Str(value) == IF value = NaN THEN <<"n","a","n">> ELSE IF value = None THEN <<"N","o","n","e">> ELSE value

_normalize_label(value) ==
    IF value = None THEN <<>> ELSE Lower(Strip(CollapseSpaces(Str(value))))

SkipFigural == "subkategori TIU figural di-skip."
SkipNumerikDeret == "subkategori TIU numerik deret di-skip."
NoSkip == "None"

\* a variant of _should_skip_row without the check of "numerik deret"
_should_skip_row_figural_only(category_value, sub_category_value) ==
    IF _normalize_label(category_value) = <<"t","i","u">>
           /\ StartsWith(_normalize_label(sub_category_value), <<"f","i","g","u","r","a","l">>)
    THEN SkipFigural ELSE NoSkip

_should_skip_row(category_value, sub_category_value) ==
    LET category_norm == _normalize_label(category_value)
        sub_norm == _normalize_label(sub_category_value)
    IN  IF category_norm # <<"t","i","u">> THEN NoSkip
        ELSE IF StartsWith(sub_norm, <<"f","i","g","u","r","a","l">>) THEN SkipFigural
        ELSE IF StartsWith(sub_norm, <<"n","u","m","e","r","i","k"," ","d","e","r","e","t">>) THEN SkipNumerikDeret
        ELSE NoSkip

\* a variant of _is_tiu_numerik without the exclusion of "numerik deret"
_is_tiu_numerik_any_numerik(category_value, sub_category_value) ==
    /\ _normalize_label(category_value) = <<"t","i","u">>
    /\ StartsWith(_normalize_label(sub_category_value), <<"n","u","m","e","r","i","k">>)

_is_tiu_numerik(category_value, sub_category_value) ==
    LET sub_norm == _normalize_label(sub_category_value)
    IN  /\ _normalize_label(category_value) = <<"t","i","u">>
        /\ StartsWith(sub_norm, <<"n","u","m","e","r","i","k">>)
        /\ ~StartsWith(sub_norm, <<"n","u","m","e","r","i","k"," ","d","e","r","e","t">>)

_is_verbal_silogisme(category_value, sub_category_value) ==
    /\ _normalize_label(category_value) = <<"t","i","u">>
    /\ _normalize_label(sub_category_value) = <<"v","e","r","b","a","l"," ","s","i","l","o","g","i","s","m","e">>

_is_verbal_analogi(category_value, sub_category_value) ==
    /\ _normalize_label(category_value) = <<"t","i","u">>
    /\ _normalize_label(sub_category_value) = <<"v","e","r","b","a","l"," ","a","n","a","l","o","g","i">>

_is_verbal_analitis(category_value, sub_category_value) ==
    /\ _normalize_label(category_value) = <<"t","i","u">>
    /\ _normalize_label(sub_category_value) = <<"v","e","r","b","a","l"," ","a","n","a","l","i","t","i","s">>

\* build_prompt: the branch of the if-elif chain that chooses the template
PromptVariant(is_tiu_numerik, is_verbal_silogisme, is_verbal_analogi, is_verbal_analitis) ==
    IF is_tiu_numerik THEN "numeric-tiu"
    ELSE IF is_verbal_silogisme THEN "verbal-syllogism"
    ELSE IF is_verbal_analogi THEN "verbal-analogy"
    ELSE IF is_verbal_analitis THEN "verbal-analytic"
    ELSE "default"

\* build_prompt: what the prompt asks about the incorrect options.  The text
\* "Isi `incorrect_reasons` dengan objek kosong {}" is in the prompt of a
\* numeric row only, incorrect_instructions are appended for every other
\* row, and the line "Opsi salah yang wajib dijelaskan: ..." is in every
\* prompt
PromptInstructions(row) ==
    [variant |-> PromptVariant(_is_tiu_numerik(row.category, row.sub_category),
                               _is_verbal_silogisme(row.category, row.sub_category),
                               _is_verbal_analogi(row.category, row.sub_category),
                               _is_verbal_analitis(row.category, row.sub_category)),
     empty_reasons_requested |-> _is_tiu_numerik(row.category, row.sub_category),
     incorrect_instructions |-> ~_is_tiu_numerik(row.category, row.sub_category),
     incorrect_request |-> IncorrectRequest(BuildPromptData(row).incorrect_indices)]

NoPrompt ==
    [variant |-> "none", empty_reasons_requested |-> FALSE, incorrect_instructions |-> FALSE,
     incorrect_request |-> <<>>]

(***************************************************************************)
(* Formatting helpers of the assembly.  "<p>" stands for the styled        *)
(* opening tag <p style="text-align:justify">, "<span>" for                *)
(* <span class="math-tex">, "\\(" "\\)" "\\[" "\\]" for the TeX delimiters.*)
(***************************************************************************)
_format_score(score) == IF ~IsNumber(score) THEN <<>> ELSE DecimalText(score.value)

_label_with_score(text, score, include_score) ==
    LET label == Strip(text)
        score_text == _format_score(score)
    IN  IF include_score /\ score_text # <<>>
        THEN label \o <<" ","(">> \o score_text \o <<")">>
        ELSE label

_ensure_trailing_period(text) ==
    IF text = <<>> \/ text[Len(text)] \in SentenceEnd THEN text ELSE text \o <<".">>

\* re.sub of one delimiter pair: each leftmost, shortest open ... close with
\* something in between is wrapped in the span
RECURSIVE WrapPairs(_, _, _)
WrapPairs(text, open, close) ==
    LET starts == {i \in 1..Len(text) : text[i] = open /\ \E j \in (i + 2)..Len(text) : text[j] = close}
    IN  IF starts = {} THEN text
        ELSE LET i == CHOOSE x \in starts : \A y \in starts : x <= y
                 j == CHOOSE x \in (i + 2)..Len(text) :
                          text[x] = close /\ \A y \in (i + 2)..(x - 1) : text[y] # close
             IN  SubSeq(text, 1, i - 1) \o <<"<span>">> \o SubSeq(text, i, j) \o <<"</span>">>
                 \o WrapPairs(Drop(text, j), open, close)

_wrap_math_tex(text) == WrapPairs(WrapPairs(text, "\\(", "\\)"), "\\[", "\\]")

\* text.splitlines()
RECURSIVE SplitLines(_)
SplitLines(text) ==
    IF \A i \in 1..Len(text) : text[i] \notin {"\n", "\r"} THEN <<text>>
    ELSE LET cut == CHOOSE i \in 1..Len(text) :
                        text[i] \in {"\n", "\r"} /\ \A j \in 1..(i - 1) : text[j] \notin {"\n", "\r"}
         IN  <<SubSeq(text, 1, cut - 1)>> \o SplitLines(Drop(text, cut))

NotEmpty(text) == text # <<>>
NotSpanTag(c) == c \notin {"<span>", "</span>"}

\* [p.strip() for p in parts if p.strip()]
StrippedNonEmpty(parts) == SelectSeq([i \in 1..Len(parts) |-> Strip(parts[i])], NotEmpty)

\* re.sub(r"^\s*<p[^>]*>", "", text)
DropHeadTag(text, unspaced) ==
    IF unspaced # <<>> /\ unspaced[1] = "<p>" THEN Tail(unspaced) ELSE text
DropOpeningP(text) == DropHeadTag(text, LStripChars(text, Whitespace))

\* re.sub(r"</p>\s*$", "", text)
DropLastTag(text, unspaced) ==
    IF unspaced # <<>> /\ unspaced[Len(unspaced)] = "</p>" THEN Take(unspaced, Len(unspaced) - 1) ELSE text
DropClosingP(text) == DropLastTag(text, RStripChars(text, Whitespace))

\* re.sub(r"<br\s*/?>", "\n", text)
BreakLines(text) == [i \in 1..Len(text) |-> IF text[i] = "<br>" THEN "\n" ELSE text[i]]

_split_numeric_paragraphs(text) ==
    StrippedNonEmpty(SplitLines(BreakLines(SelectSeq(DropClosingP(DropOpeningP(Strip(text))), NotSpanTag))))

_format_paragraph(text) == <<"<p>">> \o text \o <<"</p>">>

Strong(text) == <<"<strong>">> \o text \o <<"</strong>">>

\* the first of the texts that are equal once their whitespace is collapsed
DedupeTexts(texts) ==
    LET kept == SelectSeq([i \in 1..Len(texts) |->
                              <<texts[i], \E j \in 1..(i - 1) :
                                              Strip(CollapseSpaces(texts[j])) = Strip(CollapseSpaces(texts[i]))>>],
                          FirstOccurrence)
    IN  [i \in 1..Len(kept) |-> kept[i][1]]

_dedupe_paragraphs(paragraphs) == DedupeTexts(StrippedNonEmpty(paragraphs))

\* _normalize_detail_paragraphs of a list of texts
_normalize_detail_paragraphs(value) == StrippedNonEmpty(value)

(***************************************************************************)
(* The reply of the text-generation service and _parse_response.  A reply  *)
(* text is described by what makes json.loads accept or reject it: a code  *)
(* fence around it, prose around its braces, a bare line break inside one  *)
(* of its strings, whether a "{" comes before a "}" in it, and the value   *)
(* it encodes (an object, another JSON value, or nothing).                 *)
(***************************************************************************)
\* response.text, stripped of its code fence as generate_ai_explanations does
StripFence(raw_text) == [raw_text EXCEPT !.fenced = FALSE]

\* json.loads: <<value>>, or <<>> for JSONDecodeError
JsonLoads(text) ==
    IF text.kind = "none" \/ text.fenced \/ text.prose \/ text.newline THEN <<>>
    ELSE <<[kind |-> text.kind, data |-> text.data]>>

\* _repair_json_text: the line breaks inside strings are escaped
_repair_json_text(text) == [text EXCEPT !.newline = FALSE]

\* raw_text[start : end + 1] between the first "{" and the last "}"
HasBraces(text) == text.braces
BraceCandidate(text) == [text EXCEPT !.prose = FALSE]

ParseFailure == [kind |-> "none", data |-> <<>>]

\* a variant of _parse_response that returns an empty object where it returns None
_parse_response_empty_object(raw_text) ==
    LET empty_object == [kind |-> "object",
                         data |-> [correct_summary |-> <<>>, detail_paragraphs |-> <<>>,
                                   incorrect_reasons |-> [i \in 1..NumOptions |-> <<>>],
                                   table_html |-> <<>>]]
        direct == JsonLoads(raw_text)
        repaired == JsonLoads(_repair_json_text(raw_text))
        sliced == JsonLoads(BraceCandidate(raw_text))
        repaired_candidate == JsonLoads(_repair_json_text(BraceCandidate(raw_text)))
    IN  IF direct # <<>> THEN direct[1]
        ELSE IF repaired # <<>> THEN repaired[1]
        ELSE IF ~HasBraces(raw_text) THEN empty_object
        ELSE IF sliced # <<>> THEN sliced[1]
        ELSE IF repaired_candidate # <<>> THEN repaired_candidate[1]
        ELSE empty_object

_parse_response(raw_text) ==
    LET direct == JsonLoads(raw_text)
        repaired == JsonLoads(_repair_json_text(raw_text))
        candidate == BraceCandidate(raw_text)
        sliced == JsonLoads(candidate)
        repaired_candidate == JsonLoads(_repair_json_text(candidate))
    IN  IF direct # <<>> THEN direct[1]
        ELSE IF repaired # <<>> THEN repaired[1]
        ELSE IF ~HasBraces(raw_text) THEN ParseFailure
        ELSE IF sliced # <<>> THEN sliced[1]
        ELSE IF repaired_candidate # <<>> THEN repaired_candidate[1]
        ELSE ParseFailure

(***************************************************************************)
(* The assembly of the explanation document (generate_ai_explanations,     *)
(* after the reply is parsed).  The document is the list html_parts; the   *)
(* cell receives its fragments joined by line breaks.                      *)
(***************************************************************************)
MIN_NUMERIC_PARAGRAPHS == 4

AnswerLabel == <<"j","a","w","a","b","a","n"," ","y","a","n","g"," ","t","e","p","a","t">>
CorrectLinePrefix == <<"J","a","w","a","b","a","n"," ","y","a","n","g"," ","t","e","p","a","t",":"," ">>
IncorrectHeader == _format_paragraph(Strong(<<"J","a","w","a","b","a","n"," ","y","a","n","g"," ","k","u","r","a","n","g"," ","t","e","p","a","t",":">>))
DefaultExplanationTail == <<" ","m","e","n","c","e","r","m","i","n","k","a","n"," ","p","e","n","g","h","o","r","m","a","t","a","n"," ","t","e","r","h","a","d","a","p"," ","s","e","n","i"," ","d","a","n"," ","b","u","d","a","y","a"," ","l","o","k","a","l","."," ","J","e","l","a","s","k","a","n"," ","b","a","g","a","i","m","a","n","a"," ","u","n","s","u","r","-","u","n","s","u","r"," ","b","u","d","a","y","a"," ","d","a","l","a","m"," ","o","p","s","i"," ","t","e","r","s","e","b","u","t"," ","m","u","n","c","u","l"," ","p","a","d","a"," ","k","o","n","t","e","k","s"," ","s","o","a","l",".">>

\* re.sub(r"^jawaban yang tepat[\s:,-]*", "", text, flags=re.IGNORECASE).strip()
StripAnswerLabel(text) ==
    IF StartsWith(Lower(text), AnswerLabel)
    THEN Strip(LStripChars(Drop(text, Len(AnswerLabel)), Whitespace \cup {":", ",", "-"}))
    ELSE Strip(text)

RECURSIVE Flatten(_)
Flatten(lists) == IF lists = <<>> THEN <<>> ELSE Head(lists) \o Flatten(Tail(lists))

HasTable(text) == \E i \in 1..Len(text) : text[i] = "<table>"

\* the prefixes of a detail paragraph that the loop over detail_paragraphs skips
SkippedPrefixes == {AnswerLabel, <<"j","a","w","a","b","a","n"," ","y","a","n","g"," ","k","u","r","a","n","g"," ","t","e","p","a","t">>, <<"-"," ","o","p","s","i">>, <<"o","p","s","i">>, <<"-"," ","p","i","l","i","h","a","n">>, <<"-"," ">>}

\* the fragments one detail paragraph contributes
NumericFragments(numeric_parts) ==
    [i \in 1..Len(numeric_parts) |-> _format_paragraph(_wrap_math_tex(numeric_parts[i]))]

FragmentsOfPlain(raw_paragraph, plain_check, is_tiu_numerik) ==
    IF plain_check = <<>> THEN <<>>
    ELSE IF \E p \in SkippedPrefixes : StartsWith(Lower(plain_check), p) THEN <<>>
    ELSE IF is_tiu_numerik THEN NumericFragments(_split_numeric_paragraphs(raw_paragraph))
    ELSE <<_format_paragraph(plain_check)>>

FragmentsOfRaw(raw_paragraph, is_tiu_numerik, is_verbal_analitis) ==
    IF raw_paragraph = <<>> THEN <<>>
    ELSE IF is_verbal_analitis /\ HasTable(raw_paragraph) THEN <<raw_paragraph>>
    ELSE FragmentsOfPlain(raw_paragraph, _sanitize_text(raw_paragraph), is_tiu_numerik)

DetailFragments(paragraph, is_tiu_numerik, is_verbal_analitis) ==
    FragmentsOfRaw(Strip(paragraph), is_tiu_numerik, is_verbal_analitis)

\* the fragment of one incorrect option, or nothing when the option is skipped
FragmentOfOption(text, score, include_scores, reply_reason, main_option) ==
    IF text = <<>> THEN <<>>
    ELSE IF main_option # <<>> /\ Lower(Strip(text)) = Lower(Strip(main_option)) THEN <<>>
    ELSE <<_format_paragraph(
               <<"-"," ">> \o Strong(_label_with_score(text, score, include_scores) \o <<":">>) \o <<" ">>
               \o FinalReason(_enrich_reason(text, CleanReason(reply_reason, text), main_option),
                              _extract_proper_tokens(text, main_option)))>>

IncorrectFragment(idx, ctx, incorrect_reasons, main_option) ==
    IF idx >= Len(ctx.option_map) THEN <<>>
    ELSE FragmentOfOption(ctx.option_map[idx + 1], ctx.option_scores[idx + 1], ctx.include_scores,
                          incorrect_reasons[idx + 1], main_option)

\* what generate_ai_explanations reads of the row before it calls the service
ContextOf(row, partition, option_map, option_scores) ==
    [option_map |-> option_map,
     option_scores |-> option_scores,
     include_scores |-> _normalize_label(row.category) = <<"t","k","p">>,
     is_tiu_numerik |-> _is_tiu_numerik(row.category, row.sub_category),
     is_verbal_analitis |-> _is_verbal_analitis(row.category, row.sub_category),
     include_incorrect |-> ~_is_tiu_numerik(row.category, row.sub_category),
     correct_indices |-> _order_indices(partition.correct_indices, option_scores, option_map),
     incorrect_indices |-> _order_indices(partition.incorrect_indices, option_scores, option_map)]

RowContext(row) == ContextOf(row, BuildPromptData(row), OptionMap(row), _extract_option_scores(row))

\* detail_paragraphs of the reply, deduplicated for a numeric row
ReplyParagraphs(ctx, data) ==
    IF ctx.is_tiu_numerik THEN _dedupe_paragraphs(_normalize_detail_paragraphs(data.detail_paragraphs))
    ELSE _normalize_detail_paragraphs(data.detail_paragraphs)

\* correct_summary, the first correct option's text when the reply has none
CorrectSummary(ctx, data) ==
    IF Strip(data.correct_summary) = <<>> /\ ctx.correct_indices # <<>>
    THEN ctx.option_map[ctx.correct_indices[1] + 1]
    ELSE Strip(data.correct_summary)

\* main_option and main_score as set from correct_indices[0]
FirstOption(ctx) ==
    IF ctx.correct_indices # <<>> THEN Strip(ctx.option_map[ctx.correct_indices[1] + 1]) ELSE <<>>

MainScore(ctx) ==
    IF ctx.correct_indices # <<>> THEN ctx.option_scores[ctx.correct_indices[1] + 1] ELSE NoScore

\* main_option, taken from the option the summary echoes when no correct
\* index gave one
EchoedOption(echoed, first_option) == IF echoed # <<>> THEN echoed[1] ELSE first_option

MainOption(has_answer, first_option, summary_text, option_map) ==
    LET EchoesSummary(text) == text # <<>> /\ Lower(text) = Lower(summary_text)
    IN  IF has_answer /\ first_option = <<>> /\ summary_text # <<>>
        THEN EchoedOption(SelectSeq(option_map, EchoesSummary), first_option)
        ELSE first_option

PrimaryText(has_answer, main_option, summary_text) ==
    IF ~has_answer THEN <<>>
    ELSE IF main_option # <<>> THEN Strip(main_option) ELSE Strip(summary_text)

EchoStripped(has_answer, main_option, summary_text) ==
    IF has_answer /\ main_option # <<>>
    THEN Strip(_strip_option_echo(summary_text, main_option)) ELSE <<>>

ExplanationCore(echo_stripped, primary_text) ==
    IF Lower(echo_stripped) = Lower(primary_text) THEN <<>> ELSE echo_stripped

\* the bold line that names the correct answer
CorrectLine(ctx, labelled) ==
    IF ctx.is_tiu_numerik THEN _wrap_math_tex(labelled) ELSE _ensure_trailing_period(labelled)

CorrectParts(ctx, primary_text) ==
    IF primary_text = <<>> THEN <<>>
    ELSE <<_format_paragraph(Strong(CorrectLine(ctx,
               CorrectLinePrefix \o _label_with_score(primary_text, MainScore(ctx), ctx.include_scores))))>>

\* the sentence made of the summary when the reply has no detail paragraph
ExplanationSentence(explanation_core) ==
    WithPeriod(<<UpperChar(explanation_core[1])>> \o Tail(explanation_core))

DetailParagraphs(explanation_core, reply_paragraphs) ==
    IF explanation_core # <<>> /\ reply_paragraphs = <<>>
    THEN <<ExplanationSentence(explanation_core)>> ELSE reply_paragraphs

DetailParts(ctx, detail_paragraphs) ==
    Flatten([i \in 1..Len(detail_paragraphs) |->
                DetailFragments(detail_paragraphs[i], ctx.is_tiu_numerik, ctx.is_verbal_analitis)])

DefaultParts(ctx, main_option, detail_parts) ==
    IF main_option # <<>> /\ detail_parts = <<>> /\ ~ctx.is_tiu_numerik /\ ~ctx.is_verbal_analitis
    THEN <<_format_paragraph(main_option \o DefaultExplanationTail)>> ELSE <<>>

TableParts(ctx, table_html) ==
    IF ctx.is_verbal_analitis /\ table_html # <<>> /\ HasTable(table_html) THEN <<table_html>> ELSE <<>>

IncorrectParts(ctx, incorrect_reasons, main_option) ==
    IF ctx.incorrect_indices # <<>> /\ ctx.include_incorrect
    THEN <<IncorrectHeader>>
         \o Flatten([i \in 1..Len(ctx.incorrect_indices) |->
                IncorrectFragment(ctx.incorrect_indices[i], ctx, incorrect_reasons, main_option)])
    ELSE <<>>

\* html_parts in the order the code appends to it
JoinParts(ctx, main_option, correct_parts, detail_parts, table_parts, incorrect_parts) ==
    correct_parts \o detail_parts \o DefaultParts(ctx, main_option, detail_parts)
        \o table_parts \o incorrect_parts

AssembleWithPrimary(ctx, data, main_option, primary_text, echo_stripped) ==
    JoinParts(ctx, main_option,
              CorrectParts(ctx, primary_text),
              DetailParts(ctx, DetailParagraphs(ExplanationCore(echo_stripped, primary_text),
                                                ReplyParagraphs(ctx, data))),
              TableParts(ctx, Strip(data.table_html)),
              IncorrectParts(ctx, data.incorrect_reasons, main_option))

AssembleWithMain(ctx, data, has_answer, main_option, summary_text) ==
    AssembleWithPrimary(ctx, data, main_option,
                        PrimaryText(has_answer, main_option, summary_text),
                        EchoStripped(has_answer, main_option, summary_text))

AssembleWithSummary(ctx, data, has_answer, first_option, summary_text) ==
    AssembleWithMain(ctx, data, has_answer,
                     MainOption(has_answer, first_option, summary_text, ctx.option_map), summary_text)

\* html_parts of a row whose reply parsed to the object data
AssembleDocument(ctx, data) ==
    AssembleWithSummary(ctx, data,
                        CorrectSummary(ctx, data) # <<>> \/ FirstOption(ctx) # <<>>,
                        FirstOption(ctx),
                        StripAnswerLabel(_sanitize_text(CorrectSummary(ctx, data))))

(***************************************************************************)
(* generate_ai_explanations: the loop over the target rows.  One action is *)
(* one way through the loop body for the row of label RowIdx.              *)
(***************************************************************************)
\* what one use of the service for a prompt comes to: generate_content
\* returns a text at once, or raises and the call without generation_config
\* returns a text, or that call raises too
ServiceOutcomes(texts) ==
    {[raised |-> FALSE, calls |-> 1, text |-> t] : t \in texts}

NoData == [correct_summary |-> <<>>, detail_paragraphs |-> <<>>, incorrect_reasons |-> [i \in 1..NumOptions |-> <<>>], table_html |-> <<>>]
NoText == [fenced |-> FALSE, prose |-> FALSE, newline |-> FALSE, braces |-> FALSE, kind |-> "none", data |-> NoData]

FallbackOutcomes(texts) ==
    {[raised |-> FALSE, calls |-> 2, text |-> t] : t \in texts}
        \cup {[raised |-> TRUE, calls |-> 2, text |-> NoText]}

NoOutcome == [raised |-> FALSE, calls |-> 0, text |-> NoText]

\* data = _parse_response(raw_text) of a reply
ParsedReply(outcome) == _parse_response(StripFence(outcome.text))

TooFewParagraphs_undeduped(data) ==
    Len(_normalize_detail_paragraphs(data.detail_paragraphs)) < MIN_NUMERIC_PARAGRAPHS

\* the deduplicated detail paragraphs of a numeric row are fewer than the minimum
TooFewParagraphs(data) ==
    Len(_dedupe_paragraphs(_normalize_detail_paragraphs(data.detail_paragraphs))) < MIN_NUMERIC_PARAGRAPHS

\* the retry prompt is sent: the row is numeric and its first reply is an
\* object with too few paragraphs
RetrySent(ctx, first) ==
    /\ ~first.raised
    /\ ctx.is_tiu_numerik
    /\ ParsedReply(first).kind = "object"
    /\ TooFewParagraphs(ParsedReply(first).data)

\* data as the assembly reads it: the retry's when it parsed, else the first
FinalReply(ctx, first, second) ==
    IF RetrySent(ctx, first) /\ ~second.raised /\ ParsedReply(second).kind # "none"
    THEN ParsedReply(second) ELSE ParsedReply(first)

\* how the loop body ends for a row that reached the service call
BodyEnd(ctx, first, second) ==
    IF first.raised THEN "service"
    ELSE IF ParsedReply(first).kind = "none" THEN "invalid"
    ELSE IF ParsedReply(first).kind # "object" THEN "not_object"
    ELSE IF RetrySent(ctx, first) /\ second.raised THEN "service"
    ELSE IF FinalReply(ctx, first, second).kind # "object" THEN "not_object"
    ELSE "written"

RECURSIVE JoinLines(_)
JoinLines(parts) ==
    IF parts = <<>> THEN <<>>
    ELSE IF Len(parts) = 1 THEN parts[1]
    ELSE parts[1] \o <<"\n">> \o JoinLines(Tail(parts))

\* the label the loop is at, and whether the frame has a row of that label
RowIdx == target_indices[counter + 1]
InFrame(label) == label \in 1..Len(df)

Looping == g_pc = "loop" /\ counter < Len(target_indices) /\ InFrame(RowIdx)
CurrentRow == df[RowIdx]
Skipped(row) == _should_skip_row(row.category, row.sub_category) # NoSkip

\* the bookkeeping every way through the body shares: the row is counted, the
\* calls and the replies are recorded, the notice is shown
Handle(was_prompted, calls, texts, retried, notice) ==
    /\ counter' = counter + 1
    /\ prompted' = IF was_prompted THEN prompted \cup {RowIdx} ELSE prompted
    /\ prompts' = IF was_prompted THEN [prompts EXCEPT ![RowIdx] = PromptInstructions(CurrentRow)] ELSE prompts
    /\ service_calls' = [service_calls EXCEPT ![RowIdx] = calls]
    /\ replies_seen' = [replies_seen EXCEPT ![RowIdx] = texts]
    /\ retry_prompts' = [retry_prompts EXCEPT ![RowIdx] = retried]
    /\ notices' = [notices EXCEPT ![RowIdx] = notice]
    /\ UNCHANGED <<source_df, key_configured, g_pc, target_indices>>
    /\ UNCHANGED <<textVars, inferVars, classifyVars, repairVars, stageVars>>

TextsOf(first, second) ==
    (IF first.raised THEN <<>> ELSE <<first.text>>)
        \o (IF second.calls = 0 \/ second.raised THEN <<>> ELSE <<second.text>>)

\* the retry prompts sent: one where the attempt has a second use of the service
RetriesOf(second) == IF second.calls = 0 THEN 0 ELSE 1

\* the attempts of a row that reaches the service: the first use, and the
\* retry where one is sent
Attempts(ctx, firsts, retries) ==
    {<<first, second>> \in firsts \X (retries \cup {NoOutcome}) :
        (second = NoOutcome) <=> ~RetrySent(ctx, first)}

\* the key is configured and the model is created
Configure ==
    /\ g_pc = "start"
    /\ key_configured
    /\ g_pc' = "loop"
    /\ UNCHANGED <<source_df, df, key_configured, counter, updated_rows, prompted, prompts, service_calls,
                   replies_seen, html_parts, notices, target_indices, retry_prompts>>
    /\ UNCHANGED <<textVars, inferVars, classifyVars, repairVars, stageVars>>

\* no key: the function returns the empty list before the loop
ConfigMissing ==
    /\ g_pc = "start"
    /\ ~key_configured
    /\ g_pc' = "done"
    /\ UNCHANGED <<source_df, df, key_configured, counter, updated_rows, prompted, prompts, service_calls,
                   replies_seen, html_parts, notices, target_indices, retry_prompts>>
    /\ UNCHANGED <<textVars, inferVars, classifyVars, repairVars, stageVars>>

\* _should_skip_row gives a reason: the row is passed over
SkipRow ==
    /\ Looping
    /\ Skipped(CurrentRow)
    /\ g_pc' = g_pc
    /\ counter' = counter + 1
    /\ notices' = [notices EXCEPT ![RowIdx] = "skipped"]
    /\ UNCHANGED <<source_df, df, key_configured, updated_rows, prompted, prompts, service_calls,
                   replies_seen, html_parts, target_indices, retry_prompts>>
    /\ UNCHANGED <<textVars, inferVars, classifyVars, repairVars, stageVars>>

\* no correct index is left after _order_indices: the row is passed over
NoCorrectAnswer ==
    /\ Looping
    /\ ~Skipped(CurrentRow)
    /\ RowContext(CurrentRow).correct_indices = <<>>
    /\ Handle(TRUE, 0, <<>>, 0, "no_correct")
    /\ UNCHANGED <<df, updated_rows, html_parts>>

\* the row reaches the service call, and the body ends as the action says
Reaches(ctx, attempt, body_end) ==
    /\ ctx.correct_indices # <<>>
    /\ BodyEnd(ctx, attempt[1], attempt[2]) = body_end

Warned(attempt, notice) ==
    /\ Handle(TRUE, attempt[1].calls + attempt[2].calls, TextsOf(attempt[1], attempt[2]),
              RetriesOf(attempt[2]), notice)
    /\ UNCHANGED <<df, updated_rows, html_parts>>

Written_at_counter(parts, attempt) ==
    /\ html_parts' = [html_parts EXCEPT ![counter + 1] = parts]
    /\ df' = [df EXCEPT ![counter + 1].explanation_ai = JoinLines(parts)]
    /\ updated_rows' = Append(updated_rows, RowIdx)
    /\ Handle(TRUE, attempt[1].calls + attempt[2].calls, TextsOf(attempt[1], attempt[2]),
              RetriesOf(attempt[2]), "none")

Written(parts, attempt) ==
    /\ html_parts' = [html_parts EXCEPT ![RowIdx] = parts]
    /\ df' = [df EXCEPT ![RowIdx].explanation_ai = JoinLines(parts)]
    /\ updated_rows' = Append(updated_rows, RowIdx)
    /\ Handle(TRUE, attempt[1].calls + attempt[2].calls, TextsOf(attempt[1], attempt[2]),
              RetriesOf(attempt[2]), "none")

ServiceFailsFor(ctx, firsts, retries) ==
    \E attempt \in Attempts(ctx, firsts, retries) :
        Reaches(ctx, attempt, "service") /\ Warned(attempt, "failed")

InvalidResponseFor(ctx, firsts) ==
    \E attempt \in firsts \X {NoOutcome} :
        Reaches(ctx, attempt, "invalid") /\ Warned(attempt, "invalid")

AssemblyFailsFor(ctx, firsts, retries) ==
    \E attempt \in Attempts(ctx, firsts, retries) :
        Reaches(ctx, attempt, "not_object") /\ Warned(attempt, "failed")

WriteExplanationFor(ctx, firsts, retries) ==
    \E attempt \in Attempts(ctx, firsts, retries) :
        /\ Reaches(ctx, attempt, "written")
        /\ Written(AssembleDocument(ctx, FinalReply(ctx, attempt[1], attempt[2]).data), attempt)

\* generate_content raises with and without generation_config, for the prompt
\* or for the retry prompt: the except clause warns
ServiceFails(firsts, retries) ==
    /\ Looping
    /\ ~Skipped(CurrentRow)
    /\ ServiceFailsFor(RowContext(CurrentRow), firsts, retries)

\* _parse_response returns None: the reply is reported as invalid
InvalidResponse(firsts) ==
    /\ Looping
    /\ ~Skipped(CurrentRow)
    /\ InvalidResponseFor(RowContext(CurrentRow), firsts)

\* the reply parses to a JSON value that is no object: data.get raises and
\* the except clause warns
AssemblyFails(firsts, retries) ==
    /\ Looping
    /\ ~Skipped(CurrentRow)
    /\ AssemblyFailsFor(RowContext(CurrentRow), firsts, retries)

\* the document is assembled and written to the row's explanation_ai cell
WriteExplanation(firsts, retries) ==
    /\ Looping
    /\ ~Skipped(CurrentRow)
    /\ WriteExplanationFor(RowContext(CurrentRow), firsts, retries)

\* df.loc[row_idx] finds no row of that label: the KeyError is raised before
\* the try statement is entered and leaves the function
FetchFails ==
    /\ g_pc = "loop"
    /\ counter < Len(target_indices)
    /\ ~InFrame(RowIdx)
    /\ g_pc' = "raised"
    /\ UNCHANGED <<source_df, df, key_configured, counter, updated_rows, prompted, prompts, service_calls,
                   replies_seen, html_parts, notices, target_indices, retry_prompts>>
    /\ UNCHANGED <<textVars, inferVars, classifyVars, repairVars, stageVars>>

\* the loop is over: updated_rows is returned
Finish ==
    /\ g_pc = "loop"
    /\ counter = Len(target_indices)
    /\ g_pc' = "done"
    /\ UNCHANGED <<source_df, df, key_configured, counter, updated_rows, prompted, prompts, service_calls,
                   replies_seen, html_parts, notices, target_indices, retry_prompts>>
    /\ UNCHANGED <<textVars, inferVars, classifyVars, repairVars, stageVars>>

(***************************************************************************)
(* Specification Spec: generate_ai_explanations on a frame of one row,     *)
(* the row and the replies of the service drawn from the pools below.      *)
(***************************************************************************)
CategoryPool == {
    [category |-> <<"T","I","U">>, sub_category |-> <<"F","i","g","u","r","a","l">>],
    [category |-> <<" ","t","i","u"," ">>, sub_category |-> <<"N","u","m","e","r","i","k"," "," ","D","e","r","e","t"," ","a","n","g","k","a">>],
    [category |-> <<"T","I","U">>, sub_category |-> <<"N","u","m","e","r","i","k"," ","D","a","s","a","r">>],
    [category |-> <<"T","I","U">>, sub_category |-> <<"V","e","r","b","a","l"," ","A","n","a","l","i","t","i","s">>],
    [category |-> <<"T","i","u">>, sub_category |-> <<"v","e","r","b","a","l"," ","s","i","l","o","g","i","s","m","e">>],
    [category |-> <<"T","K","P">>, sub_category |-> <<"F","i","g","u","r","a","l">>],
    [category |-> <<"T","W","K">>, sub_category |-> NaN] }

OptionTextsPool == {
    <<<<"P","a","r","i","s">>, <<"L","y","o","n">>, <<"R","o","m","a">>>>,
    <<<<"P","a","r","i","s">>, <<" ","p","a","r","i","s"," ">>, <<"R","o","m","a">>>>,
    <<<<>>, <<"L","y","o","n">>, <<"R","o","m","a">>>> }

\* the scores of options A, B, C and of the chosen-option slot
OptionScoresPool == {
    <<NoScore, NoScore, NoScore, NoScore>>,
    <<Num(5), Num(2), Num(3), NoScore>>,
    <<Num(2), Num(5), Num(5), NoScore>>,
    <<Num(5), NoScore, NoScore, Num(5)>> }

ChosenPool == {NaN, <<"B">>}

\* a row without scores whose cells hold an earlier explanation
OldExplanation == <<"<p>">> \o <<"J","a","w","a","b","a","n"," ","y","a","n","g"," ","b","e","n","a","r",":"," ","r","o","m","a">> \o <<"</p>">>

OptionProfiles ==
    {[texts |-> PadTexts(t), scores |-> PadScores(SubSeq(sc, 1, 3), sc[4]), option_number |-> n,
      answer_header_true |-> NaN, explanation |-> None, explanation_ai |-> <<>>] :
        t \in OptionTextsPool, sc \in OptionScoresPool, n \in ChosenPool}
    \cup {[texts |-> PadTexts(t), scores |-> PadScores(<<>>, NoScore), option_number |-> NaN,
           answer_header_true |-> NaN, explanation |-> <<>>, explanation_ai |-> OldExplanation] :
            t \in OptionTextsPool}

SheetRows ==
    {[category |-> c.category, sub_category |-> c.sub_category,
      texts |-> o.texts, scores |-> o.scores, option_number |-> o.option_number,
      answer_header_true |-> o.answer_header_true, explanation |-> o.explanation,
      explanation_ai |-> o.explanation_ai] :
        c \in CategoryPool, o \in OptionProfiles}

SummaryPool == {<<>>, <<"J","a","w","a","b","a","n"," ","y","a","n","g"," ","t","e","p","a","t",":"," ","P","a","r","i","s"," ","k","a","r","e","n","a"," ","i","b","u"," ","k","o","t","a">>}

DetailPool == {
    <<>>,
    <<<<"P","a","r","i","s"," ","a","d","a","l","a","h"," ","i","b","u"," ","k","o","t","a",".">>>>,
    <<<<"J","a","w","a","b","a","n"," ","y","a","n","g"," ","t","e","p","a","t",":"," ","P","a","r","i","s">>>>,
    <<<<"H","i","t","u","n","g"," ","d","u","l","u",".">> \o <<"<br>">> \o <<"J","a","w","a","b","a","n"," ","y","a","n","g"," ","t","e","p","a","t",":"," ","P","a","r","i","s">>>>,
    <<<<"<table>">> \o <<"b","a","r","i","s">> \o <<"</table>">>>>,
    <<<<"s","a","t","u">>, <<"d","u","a">>, <<"t","i","g","a">>, <<"\\(", "x", "\\)">> \o <<" ","e","m","p","a","t">>>>,
    <<<<"s","a","t","u">>, <<"d","u","a"," ","k","a","l","i">>, <<"t","i","g","a">>, <<"d","u","a"," "," ","k","a","l","i"," ">>>>,
    <<<<"H","i","t","u","n","g",".">> \o <<"<br>", "<strong>">> \o <<"J","a","w","a","b","a","n"," ","y","a","n","g"," ","k","u","r","a","n","g"," ","t","e","p","a","t",":">> \o <<"</strong>", "<br>">>
          \o <<"-", " ", "<strong>">> \o <<"L","y","o","n",":">> \o <<"</strong>">> \o <<" ","s","a","l","a","h">>,
      <<"d","u","a">>, <<"t","i","g","a">>, <<"e","m","p","a","t">>>> }

ReasonsPool == {
    [i \in 1..NumOptions |-> <<>>],
    [i \in 1..NumOptions |->
        IF i = 1 THEN <<"P","a","r","i","s",":"," ","A","d","a","l","a","h"," ","k","o","t","a">>
        ELSE IF i = 2 THEN <<"J","a","w","a","b","a","n"," ","s","a","l","a","h",":"," ","L","y","o","n"," ","K","o","t","a"," ","k","e","c","i","l",".">>
        ELSE IF i = 3 THEN <<"o","p","s","i"," ","3",":"," ","R","o","m","a">> ELSE <<>>] }

TablePool == {<<>>, <<"<table>">> \o <<"t">> \o <<"</table>">>}

ObjectText(data) == [fenced |-> FALSE, prose |-> FALSE, newline |-> FALSE, braces |-> TRUE, kind |-> "object", data |-> data]

\* a JSON array of numbers
ArrayText == [fenced |-> FALSE, prose |-> FALSE, newline |-> FALSE, braces |-> FALSE, kind |-> "array", data |-> NoData]

PlainData ==
    [correct_summary |-> <<"J","a","w","a","b","a","n"," ","y","a","n","g"," ","t","e","p","a","t",":"," ","P","a","r","i","s"," ","k","a","r","e","n","a"," ","i","b","u"," ","k","o","t","a">>,
     detail_paragraphs |-> <<<<"P","a","r","i","s"," ","a","d","a","l","a","h"," ","i","b","u"," ","k","o","t","a",".">>>>,
     incorrect_reasons |-> [i \in 1..NumOptions |-> <<>>],
     table_html |-> <<>>]

FourParagraphs ==
    [PlainData EXCEPT !.detail_paragraphs = <<<<"s","a","t","u">>, <<"d","u","a">>, <<"t","i","g","a">>, <<"e","m","p","a","t">>>>]

\* replies that are no plain JSON object: fenced, with a bare line break in a
\* string, with prose around the braces, both, no JSON at all, braces around
\* what is no JSON, a JSON array
DefectiveTexts == {
    [ObjectText(PlainData) EXCEPT !.fenced = TRUE],
    [ObjectText(PlainData) EXCEPT !.newline = TRUE],
    [ObjectText(PlainData) EXCEPT !.prose = TRUE],
    [ObjectText(PlainData) EXCEPT !.prose = TRUE, !.newline = TRUE],
    NoText,
    [NoText EXCEPT !.prose = TRUE],
    [NoText EXCEPT !.prose = TRUE, !.braces = TRUE, !.newline = TRUE],
    ArrayText,
    [ArrayText EXCEPT !.prose = TRUE] }

\* detail_paragraphs with a table in the first paragraph and a narrative one
\* after it
TableThenNarrative ==
    << <<"<table>">> \o <<"b","a","r","i","s">> \o <<"</table>">>,
       <<"P","a","r","i","s"," ","a","d","a","l","a","h"," ","i","b","u"," ","k","o","t","a",".">> >>

ReplyTexts ==
    {ObjectText([correct_summary |-> s, detail_paragraphs |-> d, incorrect_reasons |-> r, table_html |-> <<>>]) :
        s \in SummaryPool, d \in DetailPool, r \in ReasonsPool}
    \cup {ObjectText([PlainData EXCEPT !.table_html = t, !.detail_paragraphs = d]) :
            t \in TablePool \ {<<>>},
            d \in {<<>>, <<<<"P","a","r","i","s"," ","a","d","a","l","a","h"," ","i","b","u"," ","k","o","t","a",".">>>>,
                   TableThenNarrative}}
    \cup DefectiveTexts

FirstOutcomes == ServiceOutcomes(ReplyTexts) \cup FallbackOutcomes({ObjectText(PlainData), NoText})

RetryOutcomes ==
    ServiceOutcomes({ObjectText(FourParagraphs), ObjectText(PlainData), NoText, ArrayText})
        \cup FallbackOutcomes({})

Init ==
    /\ source_df \in {<<row>> : row \in SheetRows}
    /\ df = source_df
    /\ key_configured \in BOOLEAN
    /\ counter = 0
    /\ updated_rows = <<>>
    /\ prompted = {}
    /\ prompts = [r \in 1..Len(source_df) |-> NoPrompt]
    /\ service_calls = [r \in 1..Len(source_df) |-> 0]
    /\ replies_seen = [r \in 1..Len(source_df) |-> <<>>]
    /\ html_parts = [r \in 1..Len(source_df) |-> <<>>]
    /\ notices = [r \in 1..Len(source_df) |-> "none"]
    /\ g_pc = "start"
    /\ target_indices = <<1>>
    /\ retry_prompts = [r \in 1..Len(source_df) |-> 0]
    /\ TextIdle
    /\ InferIdle
    /\ ClassifyIdle
    /\ RepairIdle
    /\ StageIdle

Next ==
    \/ Configure
    \/ ConfigMissing
    \/ SkipRow
    \/ NoCorrectAnswer
    \/ ServiceFails(FirstOutcomes, RetryOutcomes)
    \/ InvalidResponse(FirstOutcomes)
    \/ AssemblyFails(FirstOutcomes, RetryOutcomes)
    \/ WriteExplanation(FirstOutcomes, RetryOutcomes)
    \/ Finish

Spec == Init /\ [][Next]_vars

(***************************************************************************)
(* Specification SpecFrame: generate_ai_explanations on a frame of MaxRows *)
(* rows.  The targets are MaxRows different labels, in any order, of which *)
(* one may be a label the frame does not have.                             *)
(***************************************************************************)
MaxRows == 2

FrameProfiles ==
    {[category |-> c.category, sub_category |-> c.sub_category, scores |-> PadScores(<<Num(5), Num(2), Num(3)>>, NoScore)] :
        c \in {c \in CategoryPool : c.sub_category \in {<<"F","i","g","u","r","a","l">>, <<"N","u","m","e","r","i","k"," ","D","a","s","a","r">>, NaN}
                                    /\ c.category # <<"T","K","P">>}}
    \cup {[category |-> <<"T","W","K">>, sub_category |-> NaN, scores |-> PadScores(<<>>, NoScore)]}

\* a row passed over for its sub-category, a numeric row, a row of the default
\* variant, and a row of which no option is known to be correct
FrameRows ==
    {[category |-> p.category, sub_category |-> p.sub_category,
      texts |-> PadTexts(<<<<"P","a","r","i","s">>, <<"L","y","o","n">>, <<"R","o","m","a">>>>),
      scores |-> p.scores, option_number |-> NaN,
      answer_header_true |-> NaN, explanation |-> None, explanation_ai |-> <<>>] :
        p \in FrameProfiles}

TargetLists ==
    {t \in [1..MaxRows -> 1..(MaxRows + 1)] : \A i, j \in 1..MaxRows : t[i] = t[j] => i = j}

FrameFirsts == ServiceOutcomes({ObjectText(PlainData), NoText, ArrayText}) \cup FallbackOutcomes({})

FrameRetries == ServiceOutcomes({ObjectText(FourParagraphs)}) \cup FallbackOutcomes({})

InitFrame ==
    /\ source_df \in [1..MaxRows -> FrameRows]
    /\ df = source_df
    /\ key_configured \in BOOLEAN
    /\ counter = 0
    /\ updated_rows = <<>>
    /\ prompted = {}
    /\ prompts = [r \in 1..MaxRows |-> NoPrompt]
    /\ service_calls = [r \in 1..MaxRows |-> 0]
    /\ replies_seen = [r \in 1..MaxRows |-> <<>>]
    /\ html_parts = [r \in 1..MaxRows |-> <<>>]
    /\ notices = [r \in 1..MaxRows |-> "none"]
    /\ g_pc = "start"
    /\ target_indices \in TargetLists
    /\ retry_prompts = [r \in 1..MaxRows |-> 0]
    /\ TextIdle
    /\ InferIdle
    /\ ClassifyIdle
    /\ RepairIdle
    /\ StageIdle

NextFrame ==
    \/ Configure
    \/ ConfigMissing
    \/ FetchFails
    \/ SkipRow
    \/ NoCorrectAnswer
    \/ ServiceFails(FrameFirsts, FrameRetries)
    \/ InvalidResponse(FrameFirsts)
    \/ AssemblyFails(FrameFirsts, FrameRetries)
    \/ WriteExplanation(FrameFirsts, FrameRetries)
    \/ Finish

SpecFrame == InitFrame /\ [][NextFrame]_vars

(***************************************************************************)
(* Properties of the documents and of the rows passed over, under Spec.    *)
(***************************************************************************)
\* the loop has been through the body for the row of label r
Handled(r) == \E k \in 1..counter : target_indices[k] = r

\* row r is in the returned list
IsUpdated(r) == \E k \in 1..Len(updated_rows) : updated_rows[k] = r

\* a fragment whose visible text begins with the label of the correct answer
IsCorrectAnswerFragment(fragment) == StartsWith(Lower(_sanitize_text(fragment)), AnswerLabel)

CorrectAnswerFragments(parts) == {i \in 1..Len(parts) : IsCorrectAnswerFragment(parts[i])}

\* C4: every document written for a row holds exactly one fragment that gives
\* the correct answer: the bold line is there, and no detail paragraph or
\* other fragment restates it.
C4_OneCorrectAnswerFragment ==
    \A r \in 1..Len(html_parts) :
        IsUpdated(r) => Cardinality(CorrectAnswerFragments(html_parts[r])) = 1

\* the text of the primary option: the first correct option of the row
PrimaryOption(row, ctx) == OptionMap(row)[ctx.correct_indices[1] + 1]

\* the incorrect options a document explains: not correct, with text, and
\* not the primary option's text again
EligibleIncorrect(row, ctx) ==
    {idx \in Slots :
        /\ \A k \in 1..Len(ctx.correct_indices) : ctx.correct_indices[k] # idx
        /\ OptionMap(row)[idx + 1] # <<>>
        /\ Lower(Strip(OptionMap(row)[idx + 1])) # Lower(Strip(PrimaryOption(row, ctx)))}

\* option a comes before option b: the higher score first, the option order
\* among equal scores, an option without score after the scored ones
RankedBefore(row, a, b) ==
    LET sa == IF IsNumber(row.scores[a + 1]) THEN row.scores[a + 1].value ELSE -1
        sb == IF IsNumber(row.scores[b + 1]) THEN row.scores[b + 1].value ELSE -1
    IN  sa > sb \/ (sa = sb /\ a < b)

\* the fragment explains option idx: the list item that opens with its label
ExplainsOption(fragment, row, ctx, idx) ==
    StartsWith(fragment,
               <<"<p>", "-", " ">>
                   \o Strong(_label_with_score(OptionMap(row)[idx + 1], row.scores[idx + 1], ctx.include_scores)
                             \o <<":">>)
                   \o <<" ">>)

HeaderPositions(parts) == {i \in 1..Len(parts) : parts[i] = IncorrectHeader}

\* the fragments after the header are those of the eligible options, each
\* once, in rank order
EligibleInOrder(parts, header, row, ctx) ==
    /\ Len(parts) - header = Cardinality(EligibleIncorrect(row, ctx))
    /\ \A k \in 1..(Len(parts) - header) :
           \E idx \in EligibleIncorrect(row, ctx) :
               /\ ExplainsOption(parts[header + k], row, ctx, idx)
               /\ Cardinality({other \in EligibleIncorrect(row, ctx) : RankedBefore(row, other, idx)}) = k - 1

IncorrectPartInOrder(parts, row, ctx) ==
    /\ Cardinality(HeaderPositions(parts)) <= 1
    /\ (ctx.include_incorrect /\ EligibleIncorrect(row, ctx) # {}) => HeaderPositions(parts) # {}
    /\ ctx.include_incorrect =>
           \A header \in HeaderPositions(parts) : EligibleInOrder(parts, header, row, ctx)

ExcludedCategory(row) ==
    /\ _normalize_label(row.category) = <<"t","i","u">>
    /\ \/ StartsWith(_normalize_label(row.sub_category), <<"f","i","g","u","r","a","l">>)
       \/ StartsWith(_normalize_label(row.sub_category), <<"n","u","m","e","r","i","k"," ","d","e","r","e","t">>)

\* C8: a row of an excluded sub-category is passed over before build_prompt
\* and before any call of the service; nothing is written for it and it is
\* not in the returned list.
C8_ExcludedRowSkipped ==
    \A r \in 1..Len(source_df) :
        ExcludedCategory(source_df[r]) =>
            /\ r \notin prompted
            /\ service_calls[r] = 0
            /\ html_parts[r] = <<>>
            /\ df[r] = source_df[r]
            /\ ~IsUpdated(r)
            /\ Handled(r) => notices[r] = "skipped"

\* C8 witness: the loop is over a "numerik deret" row, which was passed over
C8_Witness ==
    /\ g_pc = "done"
    /\ counter = 1
    /\ _normalize_label(source_df[1].category) = <<"t","i","u">>
    /\ StartsWith(_normalize_label(source_df[1].sub_category), <<"n","u","m","e","r","i","k"," ","d","e","r","e","t">>)
    /\ notices[1] = "skipped"

\* the inference gives no index of an option with text
Uninferable(row) ==
    \A idx \in Range(_infer_correct_indices(row, OptionMap(row))) :
        ~(idx \in Slots /\ HasOptionText(row, idx))

\* C9: where the inference gives no correct index with option text, the row
\* is passed over as without correct answer: the service is not called, the
\* explanation_ai cell keeps its content and the row is not in the returned
\* list.
C9_UninferableRowSkipped ==
    \A r \in 1..Len(source_df) :
        Uninferable(source_df[r]) =>
            /\ service_calls[r] = 0
            /\ df[r] = source_df[r]
            /\ ~IsUpdated(r)
            /\ (Handled(r) /\ ~ExcludedCategory(source_df[r])) => notices[r] = "no_correct"

\* C9 witness: the loop is over a row whose only inferred index, the option of
\* the highest score, has no text
C9_Witness ==
    /\ g_pc = "done"
    /\ counter = 1
    /\ Uninferable(source_df[1])
    /\ _infer_correct_indices(source_df[1], OptionMap(source_df[1])) # <<>>
    /\ 1 \in prompted
    /\ notices[1] = "no_correct"

\* json.loads rejects the text, the repaired text and, where the text has
\* braces, the text between them and its repair
AllAttemptsFail(text) ==
    /\ JsonLoads(text) = <<>>
    /\ JsonLoads(_repair_json_text(text)) = <<>>
    /\ HasBraces(text) =>
           /\ JsonLoads(BraceCandidate(text)) = <<>>
           /\ JsonLoads(_repair_json_text(BraceCandidate(text))) = <<>>

\* the first reply received for row r admits no parse
ReplyUnparseable(r) ==
    /\ replies_seen[r] # <<>>
    /\ AllAttemptsFail(StripFence(replies_seen[r][1]))

\* C10: where every parse and repair attempt on the reply fails, the row is
\* passed over: no document is assembled, the explanation_ai cell keeps its
\* content and the row is not in the returned list.
C10_UnparseableReplySkipped ==
    \A r \in 1..Len(replies_seen) :
        ReplyUnparseable(r) =>
            /\ notices[r] = "invalid"
            /\ html_parts[r] = <<>>
            /\ df[r] = source_df[r]
            /\ ~IsUpdated(r)

\* C10 witness: the loop is over a row whose reply has braces and prose around
\* what is no JSON, so that all four attempts were made and failed
C10_Witness ==
    /\ g_pc = "done"
    /\ counter = 1
    /\ ReplyUnparseable(1)
    /\ HasBraces(replies_seen[1][1])
    /\ notices[1] = "invalid"

(***************************************************************************)
(* The retry of a numeric row, under Spec.                                 *)
(***************************************************************************)
\* the detail paragraphs of a reply that are not blank, as a set of texts
\* with their whitespace collapsed
DistinctParagraphs(data) ==
    {Strip(CollapseSpaces(data.detail_paragraphs[k])) : k \in 1..Len(data.detail_paragraphs)} \ {<<>>}

\* the first reply received for row r parsed to an object
FirstReplyIsObject(r) ==
    /\ replies_seen[r] # <<>>
    /\ _parse_response(StripFence(replies_seen[r][1])).kind = "object"

\* row r is numeric and the object of its first reply has fewer distinct
\* paragraphs than the minimum
NeedsRetry(r) ==
    /\ _is_tiu_numerik(source_df[r].category, source_df[r].sub_category)
    /\ FirstReplyIsObject(r)
    /\ Cardinality(DistinctParagraphs(_parse_response(StripFence(replies_seen[r][1])).data)) < 4

\* C11: a numeric row whose parsed reply has fewer than 4 distinct non-empty
\* detail paragraphs gets exactly one retry prompt before its document is
\* assembled; a reply with 4 or more, or a row of another variant, gets none;
\* whatever the retry returns, there is never a second one.
C11_OneRetryWhenTooFew ==
    \A r \in 1..Len(retry_prompts) :
        /\ retry_prompts[r] <= 1
        /\ Len(replies_seen[r]) <= 2
        /\ Handled(r) => (retry_prompts[r] = 1 <=> NeedsRetry(r))
        /\ ~Handled(r) => retry_prompts[r] = 0

\* C11 witness: the loop is over a numeric row whose first reply had four
\* paragraphs, two of them equal but for their whitespace; the retry was
\* sent and returned too few paragraphs again, and the document was written
C11_Witness ==
    /\ g_pc = "done"
    /\ Handled(1)
    /\ NeedsRetry(1)
    /\ Len(replies_seen[1][1].data.detail_paragraphs) = 4
    /\ retry_prompts[1] = 1
    /\ Len(replies_seen[1]) = 2
    /\ replies_seen[1][2].kind = "object"
    /\ Cardinality(DistinctParagraphs(replies_seen[1][2].data)) < 4
    /\ IsUpdated(1)

(***************************************************************************)
(* Properties of the loop over several rows, under SpecFrame.              *)
(***************************************************************************)
\* the function has ended after it entered the loop
LoopEnded == key_configured /\ g_pc \in {"done", "raised"}

AllTargetsInFrame == \A k \in 1..Len(target_indices) : InFrame(target_indices[k])

\* a failure of the service call or of the assembly for one row does not end
\* the loop: where every target is in the frame, the loop goes through all
CaughtFailuresDoNotEndLoop ==
    (LoopEnded /\ AllTargetsInFrame) =>
        /\ g_pc = "done"
        /\ \A k \in 1..Len(target_indices) : Handled(target_indices[k])

\* a row failed and a later one was written
LaterRowWrittenAfterFailure ==
    /\ g_pc = "done"
    /\ AllTargetsInFrame
    /\ Len(target_indices) = 2
    /\ notices[target_indices[1]] = "failed"
    /\ IsUpdated(target_indices[2])

\* the cells of the frame that an action on the row of label RowIdx may
\* change: none but that row's explanation_ai, and not even that one unless
\* the row is appended to the returned list
OnlyOwnExplanationChanges ==
    /\ Len(df') = Len(df)
    /\ \A r \in 1..Len(df) :
           /\ df'[r] = [df[r] EXCEPT !.explanation_ai = df'[r].explanation_ai]
           /\ df'[r] # df[r] =>
                  /\ counter < Len(target_indices)
                  /\ r = RowIdx
                  /\ updated_rows' = Append(updated_rows, r)

\* C13: processing a row changes no cell but that row's own explanation_ai;
\* a row passed over or failed changes no cell at all; what was written for
\* other rows is never altered.
C13_OnlyOwnCellWritten == [][OnlyOwnExplanationChanges]_vars

\* C13 witness: the loop went through two rows, the one of label 2 first; both
\* were written, each cell holding the document of its own row
C13_Witness ==
    /\ g_pc = "done"
    /\ target_indices = <<2, 1>>
    /\ IsUpdated(1) /\ IsUpdated(2)
    /\ source_df[1] # source_df[2]
    /\ df[1].explanation_ai = JoinLines(html_parts[1])
    /\ df[2].explanation_ai = JoinLines(html_parts[2])
    /\ df[1].explanation_ai # df[2].explanation_ai

(***************************************************************************)
(* Properties of the inference and of the ordering, under SpecInfer.       *)
(***************************************************************************)
\* what each strategy yields for the row, in the order of their priority:
\* the scores, the chosen letter, the true-answer text, the legacy explanation
Strategies(row) ==
    <<ByScores(row), ByChosenLetter(row, OptionMap(row)),
      ByAnswerTrue(row, OptionMap(row)), ByLegacyExplanation(row, OptionMap(row))>>

\* of the four results, that of strategy k is the first non-empty one
FirstYielding(yields, k) ==
    /\ yields[k] # <<>>
    /\ \A j \in 1..(k - 1) : yields[j] = <<>>

\* the result is that of the first strategy that yields anything, and is
\* empty only when none does
DecidedByFirst(yields, result) ==
    /\ \A k \in 1..4 : FirstYielding(yields, k) => result = yields[k]
    /\ result = <<>> <=> \A k \in 1..4 : yields[k] = <<>>

\* the chosen letter decides, and the two later strategies each yield
\* something else
LetterDecidesAgainstLater(yields, result) ==
    /\ FirstYielding(yields, 2)
    /\ result = yields[2]
    /\ yields[3] \notin {<<>>, result}
    /\ yields[4] \notin {<<>>, result}

\* C14: _infer_correct_indices returns what the first strategy with a
\* non-empty result yields, whatever the later strategies would yield, and
\* returns the empty list only when all four yield nothing.
C14_FirstStrategyDecides ==
    i_pc # "row" => DecidedByFirst(Strategies(irow), inferred_indices)

\* C14 witness: a row without scores whose chosen letter decides, while the
\* true-answer text and the legacy explanation each name another option
C14_Witness ==
    /\ i_pc = "built"
    /\ LetterDecidesAgainstLater(Strategies(irow), inferred_indices)

\* option a has its place before option b: the higher score first, an option
\* without score after every scored one, the option order otherwise
PlacedBefore(row, a, b) ==
    LET sa == row.scores[a + 1]
        sb == row.scores[b + 1]
    IN  IF IsNumber(sa) /\ IsNumber(sb)
        THEN sa.value > sb.value \/ (sa.value = sb.value /\ a < b)
        ELSE IF IsNumber(sa) # IsNumber(sb) THEN IsNumber(sa)
        ELSE a < b

\* the list is in that order throughout, so no index is in it twice
InScoreOrder(row, indices) ==
    \A i, j \in 1..Len(indices) : i < j => PlacedBefore(row, indices[i], indices[j])

\* C15: after _order_indices each list is sorted by descending score, an
\* index without score after every scored one and equal scores in ascending
\* option order; no index occurs twice.
C15_ListsInScoreOrder ==
    i_pc = "ordered" =>
        /\ InScoreOrder(irow, correct_indices)
        /\ InScoreOrder(irow, incorrect_indices)

\* C15 witness: two incorrect options were ordered, the later option first
\* for its score and the option without score last
C15_Witness ==
    /\ i_pc = "ordered"
    /\ Len(incorrect_indices) = 2
    /\ incorrect_indices[1] > incorrect_indices[2]
    /\ IsNumber(irow.scores[incorrect_indices[1] + 1])
    /\ ~IsNumber(irow.scores[incorrect_indices[2] + 1])

(***************************************************************************)
(* Specification SpecClassify: the classifier predicates and               *)
(* build_prompt's choice of the variant, applied to a drawn pair of labels *)
(* and to a respelling of it: another case, other whitespace.              *)
(***************************************************************************)
\* what generate_ai_explanations and build_prompt compute from the two labels
Classification(category_value, sub_category_value) ==
    [skip_reason |-> _should_skip_row(category_value, sub_category_value),
     is_tiu_numerik |-> _is_tiu_numerik(category_value, sub_category_value),
     is_verbal_silogisme |-> _is_verbal_silogisme(category_value, sub_category_value),
     is_verbal_analogi |-> _is_verbal_analogi(category_value, sub_category_value),
     is_verbal_analitis |-> _is_verbal_analitis(category_value, sub_category_value),
     variant |-> PromptVariant(_is_tiu_numerik(category_value, sub_category_value),
                               _is_verbal_silogisme(category_value, sub_category_value),
                               _is_verbal_analogi(category_value, sub_category_value),
                               _is_verbal_analitis(category_value, sub_category_value))]

ClassCategories == {
    <<"T","I","U">>,
    <<"T","i","u">>,
    <<"T","K","P">>,
    <<"T","W","K">>,
    NaN,
    None }

ClassSubCategories == {
    <<"F","i","g","u","r","a","l">>,
    <<"F","i","g","u","r","a","l"," ","G","a","m","b","a","r">>,
    <<"N","u","m","e","r","i","k"," ","D","e","r","e","t">>,
    <<"N","u","m","e","r","i","k"," ","D","e","r","e","t"," ","A","n","g","k","a">>,
    <<"N","u","m","e","r","i","k">>,
    <<"N","u","m","e","r","i","k"," ","D","a","s","a","r">>,
    <<"N","u","m","e","r","i","k","a","l">>,
    <<"V","e","r","b","a","l"," ","S","i","l","o","g","i","s","m","e">>,
    <<"V","e","r","b","a","l"," ","A","n","a","l","o","g","i">>,
    <<"V","e","r","b","a","l"," ","A","n","a","l","i","t","i","s">>,
    <<"V","e","r","b","a","l"," ","A","n","a","l","o","g","i"," ","K","a","t","a">>,
    <<"V","e","r","b","a","l">>,
    NaN,
    None }

\* each space of the text doubled, a tab before the text and a line break
\* after it
RECURSIVE Widen(_)
Widen(text) ==
    IF text = <<>> THEN <<>>
    ELSE (IF Head(text) = " " THEN <<" ", " ">> ELSE <<Head(text)>>) \o Widen(Tail(text))

Respellings == {"upper", "lower", "spaced", "upper spaced"}

Respell(value, how) ==
    IF value \in {None, NaN} THEN value
    ELSE IF how = "upper" THEN Upper(value)
    ELSE IF how = "lower" THEN Lower(value)
    ELSE IF how = "spaced" THEN <<"\t">> \o Widen(value) \o <<"\n">>
    ELSE <<" ">> \o Widen(Upper(value)) \o <<" ", " ">>

InitClassify ==
    /\ label_pair \in ClassCategories \X ClassSubCategories
    /\ respelled_pair \in {<<Respell(label_pair[1], how_category), Respell(label_pair[2], how_sub)>> :
                              how_category \in Respellings, how_sub \in Respellings}
    /\ classification = NoClassification
    /\ respelled_classification = NoClassification
    /\ c_pc = "labels"
    /\ TextIdle
    /\ InferIdle
    /\ LoopIdle
    /\ RepairIdle
    /\ StageIdle

\* the predicates are applied to the pair of labels
Classify ==
    /\ c_pc = "labels"
    /\ classification' = Classification(label_pair[1], label_pair[2])
    /\ c_pc' = "classified"
    /\ UNCHANGED <<label_pair, respelled_pair, respelled_classification>>
    /\ UNCHANGED <<textVars, inferVars, loopVars, repairVars, stageVars>>

\* the predicates are applied to the respelled pair
ClassifyRespelled ==
    /\ c_pc = "classified"
    /\ respelled_classification' = Classification(respelled_pair[1], respelled_pair[2])
    /\ c_pc' = "both"
    /\ UNCHANGED <<label_pair, respelled_pair, classification>>
    /\ UNCHANGED <<textVars, inferVars, loopVars, repairVars, stageVars>>

NextClassify == Classify \/ ClassifyRespelled

SpecClassify == InitClassify /\ [][NextClassify]_vars

\* the predicates of the four named variants that hold
HoldingPredicates(c) ==
    {name \in {"numeric-tiu", "verbal-syllogism", "verbal-analogy", "verbal-analytic"} :
        \/ name = "numeric-tiu" /\ c.is_tiu_numerik
        \/ name = "verbal-syllogism" /\ c.is_verbal_silogisme
        \/ name = "verbal-analogy" /\ c.is_verbal_analogi
        \/ name = "verbal-analytic" /\ c.is_verbal_analitis}

\* the label with its case folded, its whitespace collapsed and trimmed
Folded(value) == Lower(Strip(CollapseSpaces(IF value = None THEN <<>> ELSE Str(value))))

\* the rule table: what a pair of labels that is not passed over maps to
TableVariant(category_value, sub_category_value) ==
    IF Folded(category_value) # <<"t","i","u">> THEN "default"
    ELSE IF StartsWith(Folded(sub_category_value), <<"n","u","m","e","r","i","k">>) THEN "numeric-tiu"
    ELSE IF Folded(sub_category_value) = <<"v","e","r","b","a","l"," ","s","i","l","o","g","i","s","m","e">> THEN "verbal-syllogism"
    ELSE IF Folded(sub_category_value) = <<"v","e","r","b","a","l"," ","a","n","a","l","o","g","i">> THEN "verbal-analogy"
    ELSE IF Folded(sub_category_value) = <<"v","e","r","b","a","l"," ","a","n","a","l","i","t","i","s">> THEN "verbal-analytic"
    ELSE "default"

\* C16: for a pair of labels that is not passed over, at most one of the four
\* predicates holds and the variant chosen is the one of the rule table, the
\* default when none holds; a respelling of the labels in another case or with
\* other whitespace is classified the same; for a pair that is passed over
\* none of the four predicates holds.
C16_OneVariantPerPair ==
    /\ c_pc \in {"classified", "both"} =>
           /\ classification.skip_reason # NoSkip <=> ExcludedCategory([category |-> label_pair[1], sub_category |-> label_pair[2]])
           /\ classification.skip_reason = NoSkip =>
                  /\ Cardinality(HoldingPredicates(classification)) <= 1
                  /\ HoldingPredicates(classification) \subseteq {classification.variant}
                  /\ HoldingPredicates(classification) = {} => classification.variant = "default"
                  /\ classification.variant = TableVariant(label_pair[1], label_pair[2])
           /\ classification.skip_reason # NoSkip => HoldingPredicates(classification) = {}
    /\ c_pc = "both" => respelled_classification = classification

\* C16 witness: "TIU" with "Numerik Dasar" was classified numeric-tiu, and so
\* was its respelling in upper case with doubled spaces
C16_Witness ==
    /\ c_pc = "both"
    /\ label_pair = <<<<"T","I","U">>, <<"N","u","m","e","r","i","k"," ","D","a","s","a","r">>>>
    /\ respelled_pair # label_pair
    /\ Contains(respelled_pair[2], <<" ", " ">>)
    /\ classification.variant = "numeric-tiu"
    /\ respelled_classification.variant = "numeric-tiu"

(***************************************************************************)
(* The documents of numeric rows, under Spec.                              *)
(***************************************************************************)
\* a fragment that is a list item with a bold option label, the form of the
\* fragments that explain the incorrect options
IsIncorrectOptionFragment(fragment) == StartsWith(fragment, <<"<p>", "-", " ", "<strong>">>)

IncorrectOptionFragments(parts) == {i \in 1..Len(parts) : IsIncorrectOptionFragment(parts[i])}

IsNumericRow(r) == _is_tiu_numerik(source_df[r].category, source_df[r].sub_category)

\* C17: the document written for a numeric row holds no header of the
\* incorrect answers and no fragment explaining an incorrect option, whatever
\* incorrect options the row has and whatever the reply supplies.
C17_NumericRowOmitsIncorrect ==
    \A r \in 1..Len(html_parts) :
        (IsUpdated(r) /\ IsNumericRow(r)) =>
            /\ HeaderPositions(html_parts[r]) = {}
            /\ IncorrectOptionFragments(html_parts[r]) = {}

\* no detail paragraph of the replies received for row r holds a line break
NoLineBreakInParagraphs(r) ==
    \A k \in 1..Len(replies_seen[r]) :
        \A i \in 1..Len(replies_seen[r][k].data.detail_paragraphs) :
            \A j \in 1..Len(replies_seen[r][k].data.detail_paragraphs[i]) :
                replies_seen[r][k].data.detail_paragraphs[i][j] \notin {"<br>", "\n", "\r"}

\* the assembly itself adds neither for a numeric row: where no detail
\* paragraph of the reply is split at a line break the document has none,
\* whatever incorrect_reasons the reply supplies
NumericRowAddsNoIncorrectPart ==
    \A r \in 1..Len(html_parts) :
        (IsUpdated(r) /\ IsNumericRow(r) /\ NoLineBreakInParagraphs(r)) =>
            /\ HeaderPositions(html_parts[r]) = {}
            /\ IncorrectOptionFragments(html_parts[r]) = {}

\* a numeric row with incorrect options was written from a reply that
\* supplies reasons for them
NumericRowWithReasonsWritten ==
    /\ IsUpdated(1)
    /\ IsNumericRow(1)
    /\ NoLineBreakInParagraphs(1)
    /\ RowContext(source_df[1]).incorrect_indices # <<>>
    /\ \E k \in 1..Len(replies_seen[1]) : \E i \in 1..NumOptions : replies_seen[1][k].data.incorrect_reasons[i] # <<>>

(***************************************************************************)
(* What _parse_response hands to the assembly, under Spec.                 *)
(***************************************************************************)
\* what _parse_response returned for the k-th reply received for row r
ParsedKind(r, k) == _parse_response(StripFence(replies_seen[r][k])).kind

\* C18: _parse_response returns an object or None for every reply; a reply
\* whose JSON value is no object (an array, a string, a number) is not
\* returned as a result for the assembly.
C18_ParsedIsObjectOrNone ==
    \A r \in 1..Len(replies_seen) :
        \A k \in 1..Len(replies_seen[r]) : ParsedKind(r, k) \in {"object", "none"}

\* what the loop does with a value that is no object: data.get raises inside
\* the try statement, the failure is caught and nothing is written for the row
NonObjectNeverWritten ==
    \A r \in 1..Len(replies_seen) :
        (Handled(r) /\ replies_seen[r] # <<>> /\ ParsedKind(r, 1) = "array") =>
            /\ notices[r] = "failed"
            /\ html_parts[r] = <<>>
            /\ df[r] = source_df[r]
            /\ ~IsUpdated(r)

NonObjectReplyHandled ==
    /\ g_pc = "done"
    /\ Handled(1)
    /\ replies_seen[1] # <<>>
    /\ ParsedKind(1, 1) = "array"

(***************************************************************************)
(* Specification SpecRepair: _repair_json_text and _parse_response on the  *)
(* characters of a reply text.  The text is an object of one key and one   *)
(* string value, well-formed but for the bare line breaks its strings may  *)
(* hold; json.loads is modelled for the texts of that form.                *)
(***************************************************************************)
\* a variant of _is_escaped that looks at one character only
_is_escaped_by_one(text, idx) == idx > 1 /\ text[idx - 1] = "\\"

\* the backslashes that end at position cursor
RECURSIVE BackslashesUpTo(_, _)
BackslashesUpTo(text, cursor) ==
    IF cursor >= 1 /\ text[cursor] = "\\" THEN 1 + BackslashesUpTo(text, cursor - 1) ELSE 0

_is_escaped(text, idx) == BackslashesUpTo(text, idx - 1) % 2 = 1

\* the characters after which a backslash is kept: "\"\\/bfnrtu"
KeptEscapes == {"\"", "\\", "/", "b", "f", "n", "r", "t", "u"}

\* the loop of _repair_json_text from position idx on
RECURSIVE RepairFrom(_, _, _)
RepairFrom(raw_text, idx, in_string) ==
    IF idx > Len(raw_text) THEN <<>>
    ELSE IF raw_text[idx] = "\"" /\ ~_is_escaped(raw_text, idx)
    THEN <<raw_text[idx]>> \o RepairFrom(raw_text, idx + 1, ~in_string)
    ELSE IF in_string /\ raw_text[idx] = "\n" THEN <<"\\", "n">> \o RepairFrom(raw_text, idx + 1, in_string)
    ELSE IF in_string /\ raw_text[idx] = "\r" THEN <<"\\", "r">> \o RepairFrom(raw_text, idx + 1, in_string)
    ELSE IF in_string /\ raw_text[idx] = "\\"
    THEN IF idx + 1 <= Len(raw_text) /\ raw_text[idx + 1] \in KeptEscapes
         THEN <<raw_text[idx], raw_text[idx + 1]>> \o RepairFrom(raw_text, idx + 2, in_string)
         ELSE <<"\\", "\\">> \o RepairFrom(raw_text, idx + 1, in_string)
    ELSE <<raw_text[idx]>> \o RepairFrom(raw_text, idx + 1, in_string)

\* _repair_json_text on the characters of a text
RepairText(raw_text) == RepairFrom(raw_text, 1, FALSE)

\* json.loads: the position of the first character from idx on that is no
\* whitespace
RECURSIVE SkipWhitespace(_, _)
SkipWhitespace(text, idx) ==
    IF idx <= Len(text) /\ text[idx] \in Whitespace THEN SkipWhitespace(text, idx + 1) ELSE idx

HexDigits == Digits \cup {"a", "b", "c", "d", "e", "f", "A", "B", "C", "D", "E", "F"}

NoString == [ok |-> FALSE, next |-> 0, value |-> <<>>]

\* what an escape sequence of one letter denotes
Unescaped(letter) ==
    IF letter = "n" THEN "\n" ELSE IF letter = "r" THEN "\r" ELSE IF letter = "t" THEN "\t"
    ELSE IF letter = "f" THEN "\f" ELSE IF letter = "b" THEN "\\b" ELSE letter

\* json.loads: the string whose content begins at idx; a control character
\* in it, or a backslash before anything but an escape, is rejected
RECURSIVE LexString(_, _, _)
LexString(text, idx, value) ==
    IF idx > Len(text) THEN NoString
    ELSE IF text[idx] = "\"" THEN [ok |-> TRUE, next |-> idx + 1, value |-> value]
    ELSE IF text[idx] \in {"\n", "\r", "\t"} THEN NoString
    ELSE IF text[idx] # "\\" THEN LexString(text, idx + 1, Append(value, text[idx]))
    ELSE IF idx + 1 > Len(text) THEN NoString
    ELSE IF text[idx + 1] \in {"\"", "\\", "/", "b", "f", "n", "r", "t"}
    THEN LexString(text, idx + 2, Append(value, Unescaped(text[idx + 1])))
    ELSE IF text[idx + 1] = "u" /\ idx + 5 <= Len(text) /\ \A k \in 2..5 : text[idx + k] \in HexDigits
    THEN LexString(text, idx + 6,
                   Append(value, IF SubSeq(text, idx + 2, idx + 5) = <<"0","0","4","1">> THEN "A" ELSE "U+"))
    ELSE NoString

\* json.loads: the string that begins with the quote at idx
StringAt(text, idx) ==
    IF idx <= Len(text) /\ text[idx] = "\"" THEN LexString(text, idx + 1, <<>>) ELSE NoString

\* json.loads: the character c is the next one from idx on that is no whitespace
NextIs(text, idx, c) == SkipWhitespace(text, idx) <= Len(text) /\ text[SkipWhitespace(text, idx)] = c

\* json.loads: the text from the value on, the key being read
ObjectFromValue(text, key, val) ==
    IF val.ok /\ NextIs(text, val.next, "}") /\ SkipWhitespace(text, SkipWhitespace(text, val.next) + 1) > Len(text)
    THEN [kind |-> "object", key |-> key.value, value |-> val.value]
    ELSE NoValue

\* json.loads: the text from the key on
ObjectFromKey(text, key) ==
    IF key.ok /\ NextIs(text, key.next, ":")
    THEN ObjectFromValue(text, key, StringAt(text, SkipWhitespace(text, SkipWhitespace(text, key.next) + 1)))
    ELSE NoValue

\* json.loads of a text: the object of one key and one string, or NoValue
\* where JSONDecodeError is raised
LoadsText(text) ==
    IF NextIs(text, 1, "{")
    THEN ObjectFromKey(text, StringAt(text, SkipWhitespace(text, SkipWhitespace(text, 1) + 1)))
    ELSE NoValue

\* raw_text.find("{") and raw_text.rfind("}"), 0 where there is none
FindOpen(text) == IF \E i \in 1..Len(text) : text[i] = "{" THEN CHOOSE i \in 1..Len(text) : text[i] = "{" /\ \A j \in 1..(i - 1) : text[j] # "{" ELSE 0
FindClose(text) == IF \E i \in 1..Len(text) : text[i] = "}" THEN CHOOSE i \in 1..Len(text) : text[i] = "}" /\ \A j \in (i + 1)..Len(text) : text[j] # "}" ELSE 0

\* _parse_response from its third attempt on: the text between the braces
ParseCandidate(raw_text, start, end) ==
    IF start # 0 /\ end # 0 /\ end > start
    THEN IF LoadsText(SubSeq(raw_text, start, end)).kind # "none"
         THEN LoadsText(SubSeq(raw_text, start, end))
         ELSE LoadsText(RepairText(SubSeq(raw_text, start, end)))
    ELSE NoValue

\* _parse_response on the characters of a text
ParseText(raw_text) ==
    IF LoadsText(raw_text).kind # "none" THEN LoadsText(raw_text)
    ELSE IF LoadsText(RepairText(raw_text)).kind # "none" THEN LoadsText(RepairText(raw_text))
    ELSE ParseCandidate(raw_text, FindOpen(raw_text), FindClose(raw_text))

MaxJsonPieces == 3

\* what the strings are made of: letters, a space, a bare line feed, a bare
\* carriage return, and the escapes of a quote, of a backslash, of a line
\* feed and of a code point
BareLineFeed == <<"\n">>
BareReturn == <<"\r">>
JsonPiecePool == {
    <<"a">>, <<"n">>, <<" ">>, BareLineFeed, BareReturn,
    <<"\\", "\"">>, <<"\\", "\\">>, <<"\\", "n">>, <<"\\", "u", "0", "0", "4", "1">> }

JsonLayouts == {"compact", "spread", "key"}

\* the reply text: the string as the value right between the braces, as the
\* value of an object spread over lines, or as the key
RenderJson(layout, content) ==
    IF layout = "compact" THEN <<"{", "\"", "k", "\"", ":", "\"">> \o content \o <<"\"", "}">>
    ELSE IF layout = "spread"
    THEN <<"{", "\n", " ", "\"", "k", "\"", ":", " ", "\"">> \o content \o <<"\"", "\r", "\n", "}", "\n">>
    ELSE <<"{", "\"">> \o content \o <<"\"", ":", "\"", "v", "\"", "}">>

RawText == RenderJson(json_layout, Flatten(json_pieces))

InitRepair ==
    /\ json_layout \in JsonLayouts
    /\ json_pieces \in UNION {[1..n -> JsonPiecePool] : n \in 0..MaxJsonPieces}
    /\ repaired_text = <<>>
    /\ parsed_value = NoValue
    /\ r_pc = "text"
    /\ TextIdle
    /\ InferIdle
    /\ LoopIdle
    /\ ClassifyIdle
    /\ StageIdle

\* _repair_json_text is applied to the text
RepairReply ==
    /\ r_pc = "text"
    /\ repaired_text' = RepairText(RawText)
    /\ r_pc' = "repaired"
    /\ UNCHANGED <<json_layout, json_pieces, parsed_value>>
    /\ UNCHANGED <<textVars, inferVars, loopVars, classifyVars, stageVars>>

\* _parse_response is applied to the text
ParseReply ==
    /\ r_pc = "repaired"
    /\ parsed_value' = ParseText(RawText)
    /\ r_pc' = "parsed"
    /\ UNCHANGED <<json_layout, json_pieces, repaired_text>>
    /\ UNCHANGED <<textVars, inferVars, loopVars, classifyVars, stageVars>>

NextRepair == RepairReply \/ ParseReply

SpecRepair == InitRepair /\ [][NextRepair]_vars

\* the piece as it has to be written in a JSON string
Escaped(piece) ==
    IF piece = BareLineFeed THEN <<"\\", "n">> ELSE IF piece = BareReturn THEN <<"\\", "r">> ELSE piece

\* the characters the piece stands for
Denoted(piece) ==
    IF piece \in {BareLineFeed, <<"\\", "n">>} THEN <<"\n">>
    ELSE IF piece = BareReturn THEN <<"\r">>
    ELSE IF piece = <<"\\", "\"">> THEN <<"\"">>
    ELSE IF piece = <<"\\", "\\">> THEN <<"\\">>
    ELSE IF piece = <<"\\", "u", "0", "0", "4", "1">> THEN <<"A">>
    ELSE piece

EscapedPieces == Flatten([i \in 1..Len(json_pieces) |-> Escaped(json_pieces[i])])
DenotedPieces == Flatten([i \in 1..Len(json_pieces) |-> Denoted(json_pieces[i])])

\* the object the reply text is meant to encode
MeantObject ==
    IF json_layout = "key" THEN [kind |-> "object", key |-> DenotedPieces, value |-> <<"v">>]
    ELSE [kind |-> "object", key |-> <<"k">>, value |-> DenotedPieces]

\* C19: for a reply text that is a well-formed object but for bare line feeds
\* and carriage returns inside its strings, the output of _repair_json_text
\* is the text with each of these written as its escape and every other
\* character as it was, and _parse_response returns the object.
C19_RepairEscapesLineBreaks ==
    /\ r_pc \in {"repaired", "parsed"} => repaired_text = RenderJson(json_layout, EscapedPieces)
    /\ r_pc = "parsed" => parsed_value = MeantObject

\* C19 witness: a string of an escaped backslash, a bare line feed and an
\* escaped quote, in an object spread over lines, was repaired and parsed
C19_Witness ==
    /\ r_pc = "parsed"
    /\ json_layout = "spread"
    /\ json_pieces = <<<<"\\", "\\">>, BareLineFeed, <<"\\", "\"">>>>
    /\ repaired_text # RawText
    /\ LoadsText(RawText) = NoValue
    /\ parsed_value.kind = "object"
    /\ parsed_value.value = <<"\\", "\n", "\"">>

(***************************************************************************)
(* The lines of the prompt that list the options, under SpecInfer.         *)
(***************************************************************************)
\* the prompt has the line of slot idx with the slot's sanitized text
ListsOption(rows, row, idx) == \E k \in 1..Len(rows) : rows[k] = OptionLine(idx, OptionMap(row)[idx + 1])

\* the prompt has a line with the number of slot idx
HasLineNumbered(rows, idx) ==
    \E k \in 1..Len(rows) : StartsWith(rows[k], <<"O","p","s","i"," ">> \o DecimalText(idx + 1) \o <<":">>)

\* the request names the 1-based numbers of the indices, in their order,
\* separated by ", "
NamesIndices(request, indices) ==
    /\ Len(request) = (IF indices = <<>> THEN 0 ELSE 3 * Len(indices) - 2)
    /\ \A k \in 1..Len(indices) : request[3 * k - 2] = DigitChars[indices[k] + 2]
    /\ \A k \in 1..(Len(indices) - 1) : request[3 * k - 1] = "," /\ request[3 * k] = " "

\* C20: the prompt has, for each option slot with text, the line
\* "Opsi <slot number>: <sanitized text>"; a slot without text is not listed
\* and does not shift the numbers; the incorrect options the prompt asks to
\* explain are the 1-based numbers of incorrect_indices.
C20_PromptListsOptions ==
    i_pc # "row" =>
        /\ \A idx \in Slots :
               IF HasOptionText(irow, idx)
               THEN ListsOption(prompt_data.option_instruction_rows, irow, idx)
               ELSE ~HasLineNumbered(prompt_data.option_instruction_rows, idx)
        /\ NamesIndices(prompt_data.incorrect_request, prompt_data.incorrect_indices)

\* the prompt lists every slot that has text under its own number, and asks
\* for the incorrect options by their numbers
TextfulOptionsListed ==
    i_pc # "row" =>
        /\ \A idx \in Slots :
               HasOptionText(irow, idx) => ListsOption(prompt_data.option_instruction_rows, irow, idx)
        /\ \A idx \in Slots :
               (isna(irow.texts[idx + 1]) \/ Strip(irow.texts[idx + 1]) = <<>>)
                   => ~HasLineNumbered(prompt_data.option_instruction_rows, idx)
        /\ NamesIndices(prompt_data.incorrect_request, prompt_data.incorrect_indices)

\* a prompt whose first slot is blank: the second option is listed as "Opsi 2"
SecondOptionKeepsNumber ==
    /\ i_pc = "built"
    /\ irow.texts[1] = <<>>
    /\ HasOptionText(irow, 1)
    /\ Len(prompt_data.option_instruction_rows) = 1
    /\ ListsOption(prompt_data.option_instruction_rows, irow, 1)


\* a slot whose cell is only "&nbsp;" has no text after sanitizing, yet the
\* prompt lists it, as "Opsi <n>: " with nothing after the colon
BlankOptionListed ==
    /\ i_pc = "built"
    /\ \E idx \in Slots :
           /\ ~HasOptionText(irow, idx)
           /\ \E k \in 1..Len(prompt_data.option_instruction_rows) :
                  prompt_data.option_instruction_rows[k] = OptionLine(idx, <<>>)

(***************************************************************************)
(* Specification SpecCapital: _normalize_reason_capital applied to drawn   *)
(* texts, with the preserved tokens of drawn option texts.                 *)
(***************************************************************************)
CapitalLeads == {
    <<>>, <<" ">>, <<"2","."," ">>, <<"K","o","t","a",":"," ">>, <<"K","o","t","a",":">>,
    <<"K","o","t","a",":"," ","a","d","a","l","a","h"," ">>, <<"K","o","t","a"," ",":"," "," ","A","d","a","l","a","h"," ">> }

CapitalWords == {
    <<"P","a","r","i","s">>, <<"R","o","m","a">>, <<"K","o","t","a">>, <<"k","o","t","a">>,
    <<"A","N","D","A">>, <<"a","n","d","a">>, <<"D","N","A">>, <<"'","R","o","m","a">> }

CapitalTails == {<<>>, <<" ","i","t","u",".">>, <<":"," ","L","a","g","i">>, <<" ","B","e","s","a","r",".">>}

CapitalTexts ==
    {lead \o word \o tail : lead \in CapitalLeads, word \in CapitalWords, tail \in CapitalTails}
        \cup {<<>>, <<":">>, <<"K","o","t","a",":"," ">>, <<"1","2">>, <<"K","o","t","a",":"," ","2"," ","B","e","s","a","r">>}

InitCapital ==
    /\ reason = <<>>
    /\ option_text \in OptionTextPool
    /\ correct_text \in CorrectTextPool
    /\ cleaned_reason = None
    /\ cleaned_again = None
    /\ enriched \in CapitalTexts
    /\ enriched_again = None
    /\ final_reason = None
    /\ t_pc = "enriched"
    /\ InferIdle
    /\ LoopIdle
    /\ ClassifyIdle
    /\ RepairIdle
    /\ StageIdle

NextCapital == NormalizeCapital

SpecCapital == InitCapital /\ [][NextCapital]_vars

\* the text has a colon with something after it
HasColonWithMore(text) ==
    \E i \in 1..Len(text) : text[i] = ":" /\ i < Len(text)

\* where the leading word of the text begins (the number of characters
\* before it): after the first colon and the blanks that follow it, or at the
\* first letter of a text without such a colon
LeadingOffset(text) ==
    IF HasColonWithMore(LStripChars(text, Whitespace))
    THEN FirstIndex({i \in 1..Len(text) : text[i] = ":"})
         + LeadCount(Drop(text, FirstIndex({i \in 1..Len(text) : text[i] = ":"})), Whitespace)
    ELSE IF \E i \in 1..Len(text) : IsAlpha(text[i])
    THEN FirstIndex({i \in 1..Len(text) : IsAlpha(text[i])}) - 1
    ELSE Len(text)

LeadingWordOf(text) == LeadingWord(Drop(text, LeadingOffset(text)))

\* the text with its leading word in small letters
WithLeadingWordLowered(text, offset, word) ==
    Take(text, offset) \o Lower(word) \o Drop(text, offset + Len(word))

\* C21: _normalize_reason_capital leaves the leading word of the reason (or
\* of the text after its first colon) as it is when the word is one of the
\* preserved tokens or the pronoun "Anda" in any case; otherwise that word,
\* and nothing else, is lower-cased; every other character is unchanged.
C21_LeadingWordRule ==
    t_pc = "normalized" =>
        final_reason =
            (IF Preserved(LeadingWordOf(enriched), _extract_proper_tokens(option_text, correct_text))
             THEN enriched
             ELSE WithLeadingWordLowered(enriched, LeadingOffset(enriched), LeadingWordOf(enriched)))

\* a preserved leading word is still the leading word of the result, with
\* its capitals
PreservedWordKept ==
    (t_pc = "normalized"
        /\ LeadingWordOf(enriched) # <<>>
        /\ Preserved(LeadingWordOf(enriched), _extract_proper_tokens(option_text, correct_text)))
    => LeadingWordOf(final_reason) = LeadingWordOf(enriched)

\* in a text without a colon followed by more text, nothing changes but the
\* first letter of the leading word
OnlyInitialChangesWithoutColon ==
    (t_pc = "normalized" /\ ~HasColonWithMore(LStripChars(enriched, Whitespace)))
    => /\ Len(final_reason) = Len(enriched)
       /\ \A i \in 1..Len(enriched) :
              \/ final_reason[i] = enriched[i]
              \/ i = LeadingOffset(enriched) + 1 /\ final_reason[i] = LowerChar(enriched[i])

\* the word "adalah" after the colon is dropped from the result
AdalahDropped ==
    /\ t_pc = "normalized"
    /\ Contains(Lower(enriched), <<"a","d","a","l","a","h">>)
    /\ ~Contains(Lower(final_reason), <<"a","d","a","l","a","h">>)

\* a word in capitals that is not preserved keeps all but its first capital
OnlyInitialLowered ==
    /\ t_pc = "normalized"
    /\ enriched = <<"D","N","A"," ","i","t","u",".">>
    /\ final_reason = <<"d","N","A"," ","i","t","u",".">>

(***************************************************************************)
(* The capital of an emitted reason, under Spec.                           *)
(***************************************************************************)
\* the reason of a fragment "- <strong>label:</strong> reason" of html_parts
ReasonOf(fragment) ==
    SubSeq(fragment, FirstIndex({i \in 1..Len(fragment) : fragment[i] = "</strong>"}) + 2, Len(fragment) - 1)

\* the first letter of the text, when no digit comes before it, is a capital
StartsCapital(text) ==
    \A i \in 1..Len(text) :
        (IsAlpha(text[i]) /\ \A j \in 1..(i - 1) : ~IsAlpha(text[j]) /\ text[j] \notin Digits)
            => IsUpper(text[i])

\* the capitalized words of the option texts of the row
RowProperTokens(row) ==
    UNION {_extract_proper_tokens(OptionMap(row)[i], <<>>) : i \in 1..NumOptions}

\* C22: in every fragment written for an incorrect option whose reason has no
\* colon followed by more text, the first letter of the reason is a capital.
C22_ReasonStartsCapital ==
    \A r \in 1..Len(html_parts) :
        (IsUpdated(r) /\ ~IsNumericRow(r)) =>
            \A i \in IncorrectOptionFragments(html_parts[r]) :
                ~HasColonWithMore(ReasonOf(html_parts[r][i])) => StartsCapital(ReasonOf(html_parts[r][i]))

\* C22 (amended): in every fragment written for an incorrect option whose
\* reason has no colon followed by more text, the first letter of the reason
\* is a small letter unless the leading word is a capitalized word of an
\* option text or the pronoun "Anda"; no reason is given a capital.
C22_ReasonStartsCapitalAmended ==
    \A r \in 1..Len(html_parts) :
        (IsUpdated(r) /\ ~IsNumericRow(r)) =>
            \A i \in IncorrectOptionFragments(html_parts[r]) :
                (~HasColonWithMore(ReasonOf(html_parts[r][i]))
                    /\ LeadingWordOf(ReasonOf(html_parts[r][i])) # <<>>
                    /\ StartsCapital(ReasonOf(html_parts[r][i])))
                => Preserved(LeadingWordOf(ReasonOf(html_parts[r][i])), RowProperTokens(source_df[r]))

\* C22 witness: a reply reason "... Lyon Kota kecil." is written as
\* "kota kecil. ..."
C22_Witness ==
    /\ g_pc = "done"
    /\ IsUpdated(1)
    /\ ~IsNumericRow(1)
    /\ \E i \in IncorrectOptionFragments(html_parts[1]) :
           StartsWith(ReasonOf(html_parts[1][i]), <<"k","o","t","a"," ","k","e","c","i","l",".">>)

(***************************************************************************)
(* A chosen letter that names an empty slot, under SpecInfer.              *)
(***************************************************************************)
\* the chosen-letter cell names a slot whose option has no text
ChosenSlotIsEmpty(row) ==
    \E idx \in Slots : DenotesSlot(row.option_number, idx) /\ ~HasOptionText(row, idx)

\* the true-answer text names at least one option that has text
AnswerNamesPopulatedOption(row) ==
    /\ notna(row.answer_header_true)
    /\ \E idx \in Slots :
           /\ HasOptionText(row, idx)
           /\ Contains(Lower(_sanitize_text(row.answer_header_true)), Strip(Lower(OptionMap(row)[idx + 1])))

\* C23: when the scores yield nothing and the chosen letter names a slot
\* without text, the chosen-letter strategy yields nothing and the
\* true-answer text decides: an option it names is correct, and the row is
\* not left without a correct option.
C23_EmptyChosenSlotFallsThrough ==
    (i_pc \in {"built", "ordered"}
        /\ ByScores(irow) = <<>>
        /\ ChosenSlotIsEmpty(irow)
        /\ AnswerNamesPopulatedOption(irow))
    => /\ inferred_indices = ByAnswerTrue(irow, OptionMap(irow))
       /\ prompt_data.correct_indices # <<>>
       /\ i_pc = "ordered" => correct_indices # <<>>

\* what happens to such a row: the empty slot is the one inferred index, and
\* after the ordering no correct option is left
EmptyChosenSlotIsInferred ==
    (i_pc \in {"built", "ordered"} /\ ByScores(irow) = <<>> /\ ChosenSlotIsEmpty(irow))
    => /\ \E idx \in Slots : DenotesSlot(irow.option_number, idx) /\ inferred_indices = <<idx>>
       /\ i_pc = "ordered" => correct_indices = <<>>

\* such a row, ordered, although its true-answer text names an option
AnswerIgnoredForEmptySlot ==
    /\ i_pc = "ordered"
    /\ ByScores(irow) = <<>>
    /\ ChosenSlotIsEmpty(irow)
    /\ AnswerNamesPopulatedOption(irow)
    /\ correct_indices = <<>>

(***************************************************************************)
(* What the prompt of a numeric row asks for, under Spec.                  *)
(***************************************************************************)
\* C24: the prompt built for a numeric row asks for no explanation of an
\* incorrect option: it requests an empty incorrect_reasons object, leaves out
\* the general instructions on the incorrect options, and names no option
\* number as an incorrect option that must be explained.
C24_NumericPromptAsksNoIncorrect ==
    \A r \in prompted :
        IsNumericRow(r) =>
            /\ prompts[r].variant = "numeric-tiu"
            /\ prompts[r].empty_reasons_requested
            /\ ~prompts[r].incorrect_instructions
            /\ prompts[r].incorrect_request = <<>>

\* the prompt of a numeric row requests the empty object and leaves out the
\* general instructions; the prompt of every other row has them; every prompt
\* names the incorrect options of the row
NumericPromptOmitsInstructions ==
    \A r \in prompted :
        /\ prompts[r].empty_reasons_requested = IsNumericRow(r)
        /\ prompts[r].incorrect_instructions = ~IsNumericRow(r)
        /\ NamesIndices(prompts[r].incorrect_request, BuildPromptData(source_df[r]).incorrect_indices)

\* the prompt of a numeric row names option 2 as an incorrect option that
\* must be explained
NumericPromptNamesIncorrectOption ==
    /\ 1 \in prompted
    /\ IsNumericRow(1)
    /\ prompts[1].empty_reasons_requested
    /\ prompts[1].incorrect_request = <<"2">>

(***************************************************************************)
(* The table of a document, under Spec.                                    *)
(***************************************************************************)
TableFragments(parts) == {i \in 1..Len(parts) : HasTable(parts[i])}

IsAnalyticRow(r) == _is_verbal_analitis(source_df[r].category, source_df[r].sub_category)

\* C25: a written document holds at most one table fragment, only a row of
\* the verbal-analytic variant has one, and the table comes after every
\* narrative detail paragraph and before the header of the incorrect answers:
\* whatever follows the table is that header or comes after it.
C25_OneTableAfterNarrative ==
    \A r \in 1..Len(html_parts) :
        IsUpdated(r) =>
            /\ Cardinality(TableFragments(html_parts[r])) <= 1
            /\ TableFragments(html_parts[r]) # {} => IsAnalyticRow(r)
            /\ \A i \in TableFragments(html_parts[r]) :
                   \A j \in (i + 1)..Len(html_parts[r]) :
                       \E h \in HeaderPositions(html_parts[r]) : h <= j

\* no table follows the header of the incorrect answers in the document of a
\* verbal-analytic row, and a row that is neither verbal-analytic nor numeric
\* has no table in its document
LastTableBeforeHeader ==
    \A r \in 1..Len(html_parts) :
        IsUpdated(r) =>
            /\ (TableFragments(html_parts[r]) # {} /\ ~IsAnalyticRow(r)) => IsNumericRow(r)
            /\ IsAnalyticRow(r) =>
                   \A i \in TableFragments(html_parts[r]) : \A h \in HeaderPositions(html_parts[r]) : i < h

\* a document with two tables, a narrative paragraph between them
TwoTablesWritten ==
    /\ g_pc = "done"
    /\ IsUpdated(1)
    /\ IsAnalyticRow(1)
    /\ \E i, j, k \in 1..Len(html_parts[1]) :
           /\ i < j /\ j < k
           /\ {i, k} \subseteq TableFragments(html_parts[1])
           /\ j \notin TableFragments(html_parts[1])

(***************************************************************************)
(* The supplementary sentence, under SpecText.                             *)
(***************************************************************************)
\* the number of sentence terminators of the text
Terminators(text) == Cardinality({i \in 1..Len(text) : text[i] \in SentenceEnd})

\* the cleaned reason is short: fewer than 2 terminators or fewer than 25
\* words, counted after the final period is added
IsShort(text) == Terminators(WithPeriod(text)) < 2 \/ WordCount(WithPeriod(text)) < 25

WithSupplement(text, supplement) ==
    IF text = <<>> THEN supplement ELSE WithPeriod(text) \o <<" ">> \o supplement

\* C26: the reason of an incorrect option is never empty: _enrich_reason
\* appends the supplementary sentence exactly when the cleaned reason has
\* fewer than 2 sentence terminators or fewer than 25 words, so a missing
\* reason, or one stripped to nothing, is explained by the supplement alone.
C26_ReasonNeverEmpty ==
    /\ t_pc \in {"enriched", "reenriched", "normalized"} =>
           /\ enriched # <<>>
           /\ enriched = (IF IsShort(cleaned_reason)
                          THEN WithSupplement(cleaned_reason, Supplement(option_text, correct_text))
                          ELSE WithPeriod(cleaned_reason))
    /\ t_pc = "normalized" => final_reason # <<>>

\* C26 witness: a reason stripped to nothing whose emitted text is the
\* supplement
C26_Witness ==
    /\ t_pc = "normalized"
    /\ reason # <<>>
    /\ cleaned_reason = <<>>
    /\ final_reason = Supplement(option_text, correct_text)

\* a reason of three sentences and more than 25 words is left as it is
LongReasonNotSupplemented ==
    /\ t_pc = "normalized"
    /\ ~IsShort(cleaned_reason)
    /\ enriched = WithPeriod(cleaned_reason)

(***************************************************************************)
(* stage_fetched on one sheet: target rows, batches, retries and saves.    *)
(***************************************************************************)
AUTO_SAVE_BATCH_SIZE == 50
MAX_BATCH_RETRIES == 2
RETRY_BACKOFF_SECONDS == <<60, 120>>

\* the largest number of batches a sheet of the pool needs
MaxBatches == 3

BlankOnlyMode == "Hanya baris kosong"
AllRowsMode == "Semua baris"
Modes == {BlankOnlyMode, AllRowsMode}

OldText == <<"l","a","m","a">>
NewText == <<"b","a","r","u">>

\* the explanation cells of a sheet repeat one of these patterns
CellPatterns ==
    { <<<<>>>>, <<OldText, <<>>, NaN>>, <<<<" ">>, OldText, OldText>>, <<OldText>> }

SheetSizes ==
    {0, 1, AUTO_SAVE_BATCH_SIZE, AUTO_SAVE_BATCH_SIZE + 1,
     (MaxBatches - 1) * AUTO_SAVE_BATCH_SIZE + 1}

FrameOf(size, pattern) == [i \in 1..size |-> pattern[((i - 1) % Len(pattern)) + 1]]

\* astype(str).str.strip().eq("") | isna()
IsBlankCell(cell) == Strip(Str(cell)) = <<>> \/ cell \in {NaN, None}

TargetIndices_every_row(frame, chosen_mode) == [i \in 1..Len(frame) |-> i]

\* the labels of the frame are its positions, in order
TargetIndices(frame, chosen_mode) ==
    IF chosen_mode = BlankOnlyMode
    THEN SelectSeq([i \in 1..Len(frame) |-> i], LAMBDA i : IsBlankCell(frame[i]))
    ELSE [i \in 1..Len(frame) |-> i]

total_batches(targets) ==
    MaxOf({1, (Len(targets) + AUTO_SAVE_BATCH_SIZE - 1) \div AUTO_SAVE_BATCH_SIZE})

\* target_indices[start : start + AUTO_SAVE_BATCH_SIZE]
BatchOf(targets, index) ==
    SubSeq(targets, index * AUTO_SAVE_BATCH_SIZE + 1,
           MinOf({Len(targets), index * AUTO_SAVE_BATCH_SIZE + AUTO_SAVE_BATCH_SIZE}))

\* fillna("").astype(str).tolist()
ColumnValues(frame) ==
    [i \in 1..Len(frame) |-> IF frame[i] \in {NaN, None} THEN <<>> ELSE Str(frame[i])]

update_explanation_column_skipped(column, values) == column

\* rows 2..len(values)+1 of the column are overwritten; nothing when values is empty
update_explanation_column(column, values) ==
    IF values = <<>> THEN column
    ELSE [i \in 1..MaxOf({Len(column), Len(values)}) |->
            IF i <= Len(values) THEN values[i] ELSE column[i]]

MayRetry_once_more(tried) == tried < MAX_BATCH_RETRIES + 1

MayRetry(tried) == tried < MAX_BATCH_RETRIES

BackoffSeconds(tried) ==
    RETRY_BACKOFF_SECONDS[MinOf({tried, Len(RETRY_BACKOFF_SECONDS) - 1}) + 1]

EveryOther(batch) == [k \in 1..((Len(batch) + 1) \div 2) |-> batch[2 * k - 1]]

\* what a run that updated rows returns: labels of the batch, in its order
RunReturns(batch) ==
    {batch, <<batch[1]>>, <<batch[Len(batch)]>>, EveryOther(batch)}

\* df.at[row_idx, "explanation_ai"] = explanation_text for the returned rows
WithGenerated(frame, updates) ==
    [i \in 1..Len(frame) |-> IF i \in Range(updates) THEN NewText ELSE frame[i]]

CurrentBatch == BatchOf(sheet_targets, batch_index)

InitStage ==
    /\ TextIdle
    /\ InferIdle
    /\ LoopIdle
    /\ ClassifyIdle
    /\ RepairIdle
    /\ \E size \in SheetSizes, pattern \in CellPatterns :
        /\ sheet_df = FrameOf(size, pattern)
        /\ loaded_df = FrameOf(size, pattern)
        /\ worksheet = ColumnValues(FrameOf(size, pattern))
    /\ mode \in Modes
    /\ sheet_targets = <<>>
    /\ batch_index = 0
    /\ batch_attempt = 0
    /\ batch_updates = <<>>
    /\ sheet_updated_rows = <<>>
    /\ waits = <<>>
    /\ runs = <<>>
    /\ s_pc = "fetched"

\* the mask and the early exit of a sheet without target rows
SelectTargets ==
    /\ s_pc = "fetched"
    /\ sheet_targets' = TargetIndices(sheet_df, mode)
    /\ s_pc' = IF TargetIndices(sheet_df, mode) = <<>> THEN "done" ELSE "batch"
    /\ UNCHANGED <<loaded_df, sheet_df, worksheet, mode, batch_index, batch_attempt, batch_updates,
                   sheet_updated_rows, waits, runs>>
    /\ UNCHANGED <<textVars, inferVars, loopVars, classifyVars, repairVars>>

\* an attempt whose run returns updated rows: the loop of attempts is left
RunUpdates ==
    /\ s_pc = "batch"
    /\ \E updates \in RunReturns(CurrentBatch) :
        /\ sheet_df' = WithGenerated(sheet_df, updates)
        /\ batch_updates' = updates
        /\ runs' = Append(runs, [batch |-> batch_index, rows |-> CurrentBatch,
                                 updates |-> updates])
    /\ s_pc' = "save"
    /\ UNCHANGED <<loaded_df, worksheet, mode, sheet_targets, batch_index, batch_attempt,
                   sheet_updated_rows, waits>>
    /\ UNCHANGED <<textVars, inferVars, loopVars, classifyVars, repairVars>>

\* an attempt whose run returns no row or raises, with an attempt left: sleep
RunEmptyRetry ==
    /\ s_pc = "batch"
    /\ MayRetry(batch_attempt)
    /\ batch_updates' = <<>>
    /\ runs' = Append(runs, [batch |-> batch_index, rows |-> CurrentBatch,
                             updates |-> <<>>])
    /\ waits' = Append(waits, BackoffSeconds(batch_attempt))
    /\ batch_attempt' = batch_attempt + 1
    /\ UNCHANGED <<loaded_df, sheet_df, worksheet, mode, sheet_targets, batch_index,
                   sheet_updated_rows, s_pc>>
    /\ UNCHANGED <<textVars, inferVars, loopVars, classifyVars, repairVars>>

\* the last attempt returns no row or raises: the warning, nothing is saved
RunEmptyLast ==
    /\ s_pc = "batch"
    /\ ~MayRetry(batch_attempt)
    /\ batch_updates' = <<>>
    /\ runs' = Append(runs, [batch |-> batch_index, rows |-> CurrentBatch,
                             updates |-> <<>>])
    /\ s_pc' = "failed"
    /\ UNCHANGED <<loaded_df, sheet_df, worksheet, mode, sheet_targets, batch_index, batch_attempt,
                   sheet_updated_rows, waits>>
    /\ UNCHANGED <<textVars, inferVars, loopVars, classifyVars, repairVars>>

\* updated_rows.extend(batch_updates) and the write of the whole column
SaveBatch ==
    /\ s_pc = "save"
    /\ sheet_updated_rows' = sheet_updated_rows \o batch_updates
    /\ worksheet' = update_explanation_column(worksheet, ColumnValues(sheet_df))
    /\ s_pc' = "saved"
    /\ UNCHANGED <<loaded_df, sheet_df, mode, sheet_targets, batch_index, batch_attempt, batch_updates,
                   waits, runs>>
    /\ UNCHANGED <<textVars, inferVars, loopVars, classifyVars, repairVars>>

\* worksheet.update raises: nothing in stage_fetched catches it
SaveFails ==
    /\ s_pc = "save"
    /\ sheet_updated_rows' = sheet_updated_rows \o batch_updates
    /\ s_pc' = "aborted"
    /\ UNCHANGED <<loaded_df, sheet_df, worksheet, mode, sheet_targets, batch_index, batch_attempt,
                   batch_updates, waits, runs>>
    /\ UNCHANGED <<textVars, inferVars, loopVars, classifyVars, repairVars>>

\* the next value of batch_index, or the end of the sheet
NextBatch ==
    /\ s_pc \in {"saved", "failed"}
    /\ IF batch_index + 1 < total_batches(sheet_targets)
       THEN /\ batch_index' = batch_index + 1
            /\ s_pc' = "batch"
       ELSE /\ batch_index' = batch_index
            /\ s_pc' = "done"
    /\ batch_attempt' = 0
    /\ batch_updates' = <<>>
    /\ waits' = <<>>
    /\ UNCHANGED <<loaded_df, sheet_df, worksheet, mode, sheet_targets, sheet_updated_rows, runs>>
    /\ UNCHANGED <<textVars, inferVars, loopVars, classifyVars, repairVars>>

NextStage ==
    SelectTargets \/ RunUpdates \/ RunEmptyRetry \/ RunEmptyLast \/ SaveBatch \/ SaveFails
        \/ NextBatch

SpecStage == InitStage /\ [][NextStage]_vars

\* the script runs on: each step of the sheet that can be taken is taken
FairSpecStage == SpecStage /\ WF_vars(NextStage)

(***************************************************************************)
(* C27: batches of a sheet, in order, each saved before the next.          *)
(***************************************************************************)
\* the rows passed by a run are the slice of the targets that its batch number names
IsSliceOfTargets(run) ==
    /\ Len(run.rows) >= 1
    /\ Len(run.rows) <= AUTO_SAVE_BATCH_SIZE
    /\ \A j \in 1..Len(run.rows) :
        run.rows[j] = sheet_targets[run.batch * AUTO_SAVE_BATCH_SIZE + j]
    /\ \/ Len(run.rows) = AUTO_SAVE_BATCH_SIZE
       \/ run.batch * AUTO_SAVE_BATCH_SIZE + Len(run.rows) = Len(sheet_targets)

BatchesInOrder ==
    /\ \A k \in 1..Len(runs) : IsSliceOfTargets(runs[k])
    /\ runs # <<>> => runs[1].batch = 0
    /\ \A k \in 1..(Len(runs) - 1) :
        runs[k + 1].batch \in {runs[k].batch, runs[k].batch + 1}
    /\ runs # <<>> => runs[Len(runs)].batch <= batch_index

\* C27: the target rows of a sheet are passed in consecutive batches of at most
\* AUTO_SAVE_BATCH_SIZE rows, in order, and once a later batch is the current one
\* every row a run of an earlier batch returned is in the worksheet column with
\* its generated text
C27_BatchSavedBeforeNext ==
    /\ BatchesInOrder
    /\ \A k \in 1..Len(runs) :
        (runs[k].updates # <<>> /\ runs[k].batch < batch_index)
            => \A r \in Range(runs[k].updates) :
                /\ sheet_df[r] = NewText
                /\ worksheet[r] = NewText

\* the second batch is about to run after a full first batch that updated rows
C27_Witness ==
    /\ s_pc = "batch"
    /\ batch_index = 1
    /\ Len(runs) >= 1
    /\ Len(runs[1].rows) = AUTO_SAVE_BATCH_SIZE
    /\ runs[1].updates # <<>>
    /\ worksheet[runs[1].updates[1]] = NewText

\* a short last batch is run after two full ones
ThreeBatchesRun ==
    /\ runs # <<>>
    /\ runs[Len(runs)].batch = 2
    /\ Len(runs[Len(runs)].rows) < AUTO_SAVE_BATCH_SIZE

(***************************************************************************)
(* C29: the retries of a batch are bounded and the sheet is finished.      *)
(***************************************************************************)
RunsOfBatch(index) == {k \in 1..Len(runs) : runs[k].batch = index}

\* a batch is run again only after a run of it that returned no row
RerunOnlyAfterEmpty ==
    \A k \in 1..(Len(runs) - 1) :
        runs[k + 1].batch = runs[k].batch => runs[k].updates = <<>>

\* a run that returned rows is the last run of its batch
UpdatedBatchNotRerun ==
    \A k \in 1..Len(runs) :
        runs[k].updates # <<>> => \A later \in (k + 1)..Len(runs) : runs[later].batch # runs[k].batch

AtMostThreeAttempts ==
    /\ batch_attempt <= MAX_BATCH_RETRIES
    /\ \A index \in 0..batch_index : Cardinality(RunsOfBatch(index)) <= MAX_BATCH_RETRIES + 1

\* the sleeps before the retries of the current batch: 60, then 120
WaitsAreBackoff ==
    /\ Len(waits) <= Len(RETRY_BACKOFF_SECONDS)
    /\ waits = SubSeq(RETRY_BACKOFF_SECONDS, 1, Len(waits))
    /\ s_pc \in {"batch", "save", "failed"} => Len(waits) = batch_attempt

\* the warning is reached after three runs of the batch that returned no row
GivenUpAfterLastAttempt ==
    s_pc = "failed" =>
        /\ batch_attempt = MAX_BATCH_RETRIES
        /\ Cardinality(RunsOfBatch(batch_index)) = MAX_BATCH_RETRIES + 1
        /\ \A k \in RunsOfBatch(batch_index) : runs[k].updates = <<>>

RetryDiscipline ==
    /\ RerunOnlyAfterEmpty
    /\ UpdatedBatchNotRerun
    /\ AtMostThreeAttempts
    /\ WaitsAreBackoff
    /\ GivenUpAfterLastAttempt

\* the loop over the batches is left, or a write to the sheet raised
StageEnded == s_pc \in {"done", "aborted"}

\* C29: a batch is run again only when its run returned no row or raised, at most
\* MAX_BATCH_RETRIES more times with sleeps of 60 then 120 seconds, a batch that
\* updated a row is never run again, and the processing of the sheet ends
C29_RetriesBoundedAndSheetEnds == []RetryDiscipline /\ <>StageEnded

\* a batch was given up after three empty runs and the next batch was run, to the end
C29_Witness ==
    /\ s_pc = "done"
    /\ Cardinality(RunsOfBatch(0)) = MAX_BATCH_RETRIES + 1
    /\ \A k \in RunsOfBatch(0) : runs[k].updates = <<>>
    /\ RunsOfBatch(1) # {}

\* both sleeps were taken before the third attempt returned rows
ThirdAttemptUpdates ==
    /\ s_pc = "save"
    /\ waits = RETRY_BACKOFF_SECONDS
    /\ batch_updates # <<>>

(***************************************************************************)
(* C30: the blank-rows-only mode leaves the other rows alone.              *)
(***************************************************************************)
\* the rows whose explanation was not blank when the generation was started
LoadedNonBlank == {r \in 1..Len(loaded_df) : ~IsBlankCell(loaded_df[r])}

OnlyBlankRowsPassed ==
    \A k \in 1..Len(runs) : \A r \in Range(runs[k].rows) : IsBlankCell(loaded_df[r])

\* C30: in the mode "Hanya baris kosong" every row passed to a run had a blank or
\* missing explanation when the generation was started, and a row whose
\* explanation was not blank then keeps its value in the frame and in the
\* worksheet column, whatever batches and retries have run
C30_NonBlankRowsUntouched ==
    mode = BlankOnlyMode =>
        /\ OnlyBlankRowsPassed
        /\ \A r \in LoadedNonBlank :
            /\ sheet_df[r] = loaded_df[r]
            /\ worksheet[r] = loaded_df[r]

\* a sheet with blank and non-blank rows is finished in the blank-rows mode after
\* two batches, one of them retried, with generated rows saved
C30_Witness ==
    /\ mode = BlankOnlyMode
    /\ s_pc = "done"
    /\ LoadedNonBlank # {}
    /\ RunsOfBatch(1) # {}
    /\ \E k \in 1..(Len(runs) - 1) : runs[k].batch = runs[k + 1].batch
    /\ \E r \in 1..Len(worksheet) : worksheet[r] = NewText /\ IsBlankCell(loaded_df[r])

\* in the mode "Semua baris" a row with an old explanation is overwritten
AllRowsModeOverwrites ==
    /\ mode = AllRowsMode
    /\ \E r \in LoadedNonBlank : worksheet[r] = NewText

(***************************************************************************)
(* Specification SpecStrip: the loops of _strip_reason_prefix and          *)
(* _strip_option_echo, one iteration per step, on the drawn reason texts.  *)
(***************************************************************************)
InitStrip ==
    /\ reason = None
    /\ option_text = None
    /\ correct_text = <<>>
    /\ cleaned_reason = None
    /\ cleaned_again = None
    /\ enriched = None
    /\ enriched_again = None
    /\ final_reason = None
    /\ t_pc = "reply"
    /\ InferIdle
    /\ LoopIdle
    /\ ClassifyIdle
    /\ RepairIdle
    /\ StageIdle

\* the reason of the reply for one incorrect option, and the text of the option
ReadReason ==
    /\ t_pc = "reply"
    /\ reason' \in Concats(MaxPieces)
    /\ option_text' \in OptionTextPool
    /\ t_pc' = "input"
    /\ UNCHANGED <<correct_text, cleaned_reason, cleaned_again, enriched, enriched_again, final_reason>>
    /\ UNCHANGED <<inferVars, loopVars, classifyVars, repairVars, stageVars>>

\* the text the loop of _strip_reason_prefix starts from
PrefixLoopStart(text) == Strip(_sanitize_text(Strip(text)))

\* the reason is stripped and sanitised and _strip_reason_prefix is entered
EnterPrefixLoop ==
    /\ t_pc = "input"
    /\ cleaned_reason' = PrefixLoopStart(reason)
    /\ t_pc' = "prefix"
    /\ UNCHANGED <<reason, option_text, correct_text, cleaned_again, enriched, enriched_again, final_reason>>
    /\ UNCHANGED <<inferVars, loopVars, classifyVars, repairVars, stageVars>>

\* one iteration of the loop of _strip_reason_prefix; when it stops, the entry
\* of _strip_option_echo up to its loop
PrefixPass ==
    /\ t_pc = "prefix"
    /\ IF StripPrefixPass(cleaned_reason) = cleaned_reason
       THEN /\ cleaned_reason' = Strip(cleaned_reason)
            /\ t_pc' = IF Strip(option_text) = <<>> THEN "stripped" ELSE "echo"
       ELSE /\ cleaned_reason' = StripPrefixPass(cleaned_reason)
            /\ t_pc' = "prefix"
    /\ UNCHANGED <<reason, option_text, correct_text, cleaned_again, enriched, enriched_again, final_reason>>
    /\ UNCHANGED <<inferVars, loopVars, classifyVars, repairVars, stageVars>>

\* cleaned_reason[len(option_clean):].lstrip(" ,:.-").strip()
EchoTrimmed(cleaned, option_clean) ==
    Strip(LStripChars(Drop(cleaned, Len(option_clean)), {" ", ",", ":", ".", "-"}))

\* one iteration of the loop of _strip_option_echo
EchoPass ==
    /\ t_pc = "echo"
    /\ IF ~StartsWith(Lower(cleaned_reason), Lower(Strip(option_text)))
       THEN /\ cleaned_reason' = cleaned_reason
            /\ t_pc' = "stripped"
       ELSE IF EchoTrimmed(cleaned_reason, Strip(option_text)) = <<>>
       THEN /\ cleaned_reason' = <<>>
            /\ t_pc' = "stripped"
       ELSE /\ cleaned_reason' = EchoTrimmed(cleaned_reason, Strip(option_text))
            /\ t_pc' = "echo"
    /\ UNCHANGED <<reason, option_text, correct_text, cleaned_again, enriched, enriched_again, final_reason>>
    /\ UNCHANGED <<inferVars, loopVars, classifyVars, repairVars, stageVars>>

NextStrip == ReadReason \/ EnterPrefixLoop \/ PrefixPass \/ EchoPass

SpecStrip == InitStrip /\ [][NextStrip]_vars

\* a step of NextStrip that changes the state is possible exactly when the
\* loops are not left yet
StripEnabled == t_pc # "stripped"

\* the call is not suspended: an iteration that can run does run.  This is
\* WF_vars(NextStrip) with ENABLED <<NextStrip>>_vars written as StripEnabled
FairSpecStrip == SpecStrip /\ ([]<>(~StripEnabled) \/ []<><<NextStrip>>_vars)

\* an iteration after which the loop goes on leaves a strictly shorter text
IterationShortens ==
    ((t_pc = "prefix" /\ t_pc' = "prefix") \/ (t_pc = "echo" /\ t_pc' = "echo"))
        => Len(cleaned_reason') < Len(cleaned_reason)

\* C28: for every reason and option text the loops of _strip_reason_prefix and
\* _strip_option_echo end, and every iteration that does not stop its loop
\* makes the working text strictly shorter
C28_StripLoopsTerminate == [][IterationShortens]_vars /\ <>(t_pc = "stripped")

\* the prefix loop is in its third iteration or later: two passes shortened the text
C28_Witness ==
    /\ t_pc = "prefix"
    /\ cleaned_reason # PrefixLoopStart(reason)
    /\ cleaned_reason # StripPrefixPass(PrefixLoopStart(reason))

\* the echo loop has cut the option off twice and goes on
EchoCutTwice ==
    /\ t_pc = "echo"
    /\ Len(cleaned_reason) + 2 * Len(Strip(option_text)) <= Len(_strip_reason_prefix(PrefixLoopStart(reason)))
    /\ cleaned_reason # _strip_reason_prefix(PrefixLoopStart(reason))

\* the text left by the steps is the text the clean-up of the reason returns
StepsAgreeWithCleanReason ==
    t_pc = "stripped" => cleaned_reason = CleanReason(reason, option_text)

====
